---- MODULE Spec2Model ----
(***************************************************************************)
(* Drug Intelligence workflow: one invocation of main() (src/main.py)      *)
(* driving DrugIntelligenceWorkflow (src/drug_intelligence.py and its      *)
(* part 3, src/utils.py).  The run record (process_status table), the      *)
(* customer log (log_report table), the customer report tables and the     *)
(* staging directories are the state; every method main calls is one       *)
(* action.  A database statement or a file operation may raise when        *)
(* ioFaults is set (specification SpecIOFaults); under Spec they succeed.  *)
(***************************************************************************)
EXTENDS Integers, Sequences, FiniteSets, TLC

\* ------------------------------------------------------------------ bounds
MaxCustomers == 2
MaxFiles == 2
\* at most this many database statements or file operations raise in one run
MaxFaults == 2
\* a text handed to get_excluded_salt has at most this many characters
MaxLen == 4
\* a customer sheet has at most this many rows
MaxRows == 3
\* a "with db.transaction():" block makes at most this many execute_update calls
MaxStatements == 3
\* the process status table of the health check has at most this many rows
MaxProcesses == 2

Customers == 1..MaxCustomers
Files == 1..MaxFiles

\* ------------------------------------------------------- program constants
\* process_status values, in the order the workflow writes them
StatusOrder ==
  << "Initiated", "File Moved to Inprogress",
     "Master Tracker Validation Initiated",
     "Master Tracker Validation Completed", "Completed", "Failed" >>

Terminal == {"Completed", "Failed"}

\* the keys of processor_map
processor_map ==
  { "PROCESS_CAPLIN", "PROCESS_BELLS", "PROCESS_RELONCHEM",
    "PROCESS_MARKSANS_USA", "PROCESS_PADAGIS_USA", "PROCESS_PADAGIS_ISRAEL" }

\* the report table each processor truncates and fills
ReportTableOf(name) ==
  CASE name = "PROCESS_CAPLIN" -> "caplin_master_report"
    [] name = "PROCESS_BELLS" -> "bells_master_report"
    [] name = "PROCESS_RELONCHEM" -> "relonchem_master_report"
    [] name = "PROCESS_MARKSANS_USA" -> "marksans_usa_master_report"
    [] name = "PROCESS_PADAGIS_USA" -> "padagis_usa_master_report"
    [] name = "PROCESS_PADAGIS_ISRAEL" -> "padagis_israle_master_report"

ReportTables == { ReportTableOf(n) : n \in processor_map }

\* ------------------------------------------------------------ input domains
\* suprocess_name values a configuration row may carry
SubprocessNames == {"PROCESS_CAPLIN", "PROCESS_UNKNOWN"}

\* what a processor does with a customer file:
\*   ok        table truncated, rows inserted, returns True
\*   nodata    table truncated, the sheet cannot be read, returns False
\*   badconfig raises before the truncate (caught), returns False
\*   rowerror  table truncated, the first row raises while it is classified or
\*             inserted (inner except: warning, continue), returns True
ProcessorOutcomes == {"ok", "nodata", "badconfig", "rowerror"}

\* content of the tracker spreadsheet
TrackerContents == {"valid", "product_col_missing", "comment_col_missing"}

NoInput == [config |-> "unread", name |-> "-", outcome |-> "-", file |-> 0]

VARIABLES
  pc,              \* position of main(): the next method it calls
  exitCode,        \* return value of main(), -1 while running
  ioFaults,        \* whether database statements and file operations may raise
  faults,          \* how many of them have raised so far
  trackerContent,  \* content of the tracker spreadsheet
  trackerLoc,      \* where the tracker file is
  trackerInOutput, \* a copy of the tracker lies in Output/<process_id>/
  inProgressLeftover, \* InProgress holds items an earlier run left behind
  outputDir,       \* Output/<process_id>/: "none", "Output", or "Failed" (moved)
  masterTrackerPath, \* config.paths['master_tracker_path'] is set
  fileLoc,         \* fileLoc[c][f]: where the f-th file of customer c's folder is
  processId,       \* config.process_id, 0 = None
  run,             \* this run's row of the process_status table
  runWrites,       \* history: the row after each statement that wrote it
  logReport,       \* this run's rows of the log_report table, log_id = index
  reportTable,     \* reportTable[t]: number of include / exclude rows of
                   \* earlier runs (prev_) and of this run in report table t
  truncated,       \* history: report tables truncated in this run
  inclusion_exclusion_counts, \* rows of the per-customer counts table
  overall_count_report,       \* rows of the overall counts table
  customerList,    \* active customers, ordered by customer_id
  custIdx,         \* loop index of master_tracker_update
  custInput,       \* what execute_each_customer read for each customer
  custResult,      \* history: return value of execute_each_customer
  total_customers,
  processed_customers,
  failed_customers,
  validated,       \* return value of validate_master_tracker
  notifications,   \* mails handed to EmailSender, in order
  trace            \* history: methods called and their effects, in order

\* DrugDataProcessor.get_excluded_salt (src/processors.py), one call
VARIABLES
  saltPc,              \* "call" before the call, "return" after it, "off"
  drug_name,           \* the argument: a text, as the sequence of its characters
  excluded_saltnames,  \* config.excluded_saltnames: a sequence of texts
  filtered_name        \* the value returned

\* the row loop of one processor of DrugDataProcessor (src/processors.py)
VARIABLES
  classifyPc,             \* "loop" while rows are processed, "returned", "off"
  processorName,          \* the processor_map key of the processor running
  rowvalues,              \* the rows the extractor handed over
  rowIdx,                 \* index of the row the loop is at
  include_exclude_status, \* the processor's local variable of that name
  remark,                 \* the processor's local variable of that name
  report_rows             \* the rows inserted into the customer report table

\* one "with db.transaction():" block on a DatabaseManager (src/database.py)
VARIABLES
  txnPc,       \* "start", "in" the block, "committed", "rolledback", "off"
  autocommit,  \* the autocommit setting the connection was opened with
  tableRows,   \* the rows the database holds durably
  pending,     \* the rows of the connection's open, uncommitted transaction
  executed     \* history: the rows the block's execute_update calls wrote

\* two invocations of main() at work on the same database and directories:
\* move_to_inprogress and the customer loop of each (src/drug_intelligence.py)
VARIABLES
  runPc,          \* runPc[r]: the step run r takes next
  mt,             \* mt[r]: config.master_tracker_filename of run r, 0 = unset
  trackerIntake,  \* the tracker files in the master tracker directory
  statusRows,     \* the process_status table: statusRows[id] = inserting run
  ownRow,         \* history: the process_id of the row run r inserted
  held,           \* held[r]: config.process_id of run r, 0 = None
  cust,           \* cust[r]: the customer run r's loop is at
  clientFile,     \* clientFile[r]: the customer file run r has listed or staged, or NoFile
  intake,         \* the customer files in the client directories, as <<c, f>>
  inProgressTrackers, \* the tracker files in InProgress
  inProgressFiles,    \* the customer files in InProgress/<customer_name>/
  processed,      \* the customer files in Processed
  failed,         \* the customer files in Failed
  cleanedOver,    \* history: what a run's cleanup removed while its owner had it staged
  concurrent      \* history: a run has taken a step while the other was at work

\* one call of process_status_api (src/logger.py)
VARIABLES
  apiPc,             \* "call", "loop" over all_records, "returned", "off"
  processes,         \* the ProcessStatus table with what its reports say; id = index
  request,           \* start, length and the job the job_id parameter names
  records,           \* the ids of the page of the listing
  yes_required_ids,
  all_records,       \* the ids the trigger check goes through
  recIdx,            \* index of the record the loop is at
  processes_ready_for_trigger,
  job_triggered,
  enqueued           \* history: how many execute_job tasks the call enqueued

wfVars ==
  << inProgressLeftover, pc, exitCode, ioFaults, faults, trackerContent, trackerLoc, trackerInOutput,
     outputDir, masterTrackerPath, fileLoc, processId, run, runWrites,
     logReport, reportTable, truncated, inclusion_exclusion_counts,
     overall_count_report, customerList, custIdx, custInput,
     custResult, total_customers, processed_customers, failed_customers,
     validated, notifications, trace >>

saltVars == << saltPc, drug_name, excluded_saltnames, filtered_name >>

classifyVars ==
  << classifyPc, processorName, rowvalues, rowIdx, include_exclude_status,
     remark, report_rows >>

txnVars == << txnPc, autocommit, tableRows, pending, executed >>

runsVars ==
  << runPc, mt, trackerIntake, statusRows, ownRow, held, cust, clientFile,
     intake,
     inProgressTrackers, inProgressFiles, processed, failed, cleanedOver,
     concurrent >>

apiVars ==
  << apiPc, processes, request, records, yes_required_ids, all_records, recIdx,
     processes_ready_for_trigger, job_triggered, enqueued >>

vars == << wfVars, saltVars, classifyVars, txnVars, runsVars, apiVars >>

\* what each component leaves alone
notWorkflow == << saltVars, classifyVars, txnVars, runsVars, apiVars >>
notSalt == << wfVars, classifyVars, txnVars, runsVars, apiVars >>
notClassify == << wfVars, saltVars, txnVars, runsVars, apiVars >>
notTxn == << wfVars, saltVars, classifyVars, runsVars, apiVars >>
notRuns == << wfVars, saltVars, classifyVars, txnVars, apiVars >>
notApi == << wfVars, saltVars, classifyVars, txnVars, runsVars >>

\* the two runs
Runs == {1, 2}
NoFile == << 0, 0 >>

\* get_excluded_salt is not being called
SaltIdle ==
  /\ saltPc = "off"
  /\ drug_name = <<>>
  /\ excluded_saltnames = <<>>
  /\ filtered_name = <<>>

\* no processor is running
ClassifyIdle ==
  /\ classifyPc = "off"
  /\ processorName = "-"
  /\ rowvalues = <<>>
  /\ rowIdx = 0
  /\ include_exclude_status = "unbound"
  /\ remark = "unbound"
  /\ report_rows = <<>>

\* process_status_api is not being called
ApiIdle ==
  /\ apiPc = "off"
  /\ processes = << >>
  /\ request = [start |-> 0, length |-> 0, job |-> "no_job_id"]
  /\ records = << >>
  /\ yes_required_ids = {}
  /\ all_records = << >>
  /\ recIdx = 0
  /\ processes_ready_for_trigger = << >>
  /\ job_triggered = FALSE
  /\ enqueued = 0

\* no second invocation of main() is around
RunsIdle ==
  /\ runPc = [r \in Runs |-> "off"]
  /\ mt = [r \in Runs |-> 0]
  /\ trackerIntake = {}
  /\ statusRows = <<>>
  /\ ownRow = [r \in Runs |-> 0]
  /\ held = [r \in Runs |-> 0]
  /\ cust = [r \in Runs |-> 0]
  /\ clientFile = [r \in Runs |-> NoFile]
  /\ intake = {}
  /\ inProgressTrackers = {}
  /\ inProgressFiles = {}
  /\ processed = {}
  /\ failed = {}
  /\ cleanedOver = {}
  /\ concurrent = FALSE

\* no transaction block is running
TxnIdle ==
  /\ txnPc = "off"
  /\ autocommit = FALSE
  /\ tableRows = <<>>
  /\ pending = <<>>
  /\ executed = <<>>

\* ------------------------------------------------------------------ helpers
\* how many more operations may raise once n have
Budget(n) == IF ioFaults /\ n < MaxFaults THEN MaxFaults - n ELSE 0

\* outcome of one database statement or file operation: TRUE = it succeeded
IO(n) == IF Budget(n) > 0 THEN BOOLEAN ELSE {TRUE}

\* outcomes of k operations in a row
Raised(io) == Cardinality({ i \in DOMAIN io : ~io[i] })
IOs(k, n) == { io \in [1..k -> BOOLEAN] : Raised(io) <= Budget(n) }

\* process_status rows of the runs before this one: their ids are 1..Len
earlierRuns == << "Completed" >>

NoRun == [status |-> "none", mt_filename |-> FALSE, end_datetime |-> FALSE,
          error_message |-> <<>>]

Rank(s) == CHOOSE i \in 1..Len(StatusOrder) : StatusOrder[i] = s

\* INSERT INTO process_status (process_status, mt_filename, start_datetime)
InsertedRunRow ==
  [status |-> "Initiated", mt_filename |-> TRUE, end_datetime |-> FALSE,
   error_message |-> <<>>]

\* UPDATE process_status SET process_status = %s
StatusRow(r, status) == [r EXCEPT !.status = status]

\* variant of FailedRow that forgets end_datetime = NOW(); C9 must reject it
FailedRowWithoutEndTime(r, error_message) ==
  [r EXCEPT !.status = "Failed", !.error_message = error_message]

\* UPDATE ... SET process_status = 'Failed', error_message = %s, end_datetime = NOW()
FailedRow(r, error_message) ==
  [r EXCEPT !.status = "Failed", !.error_message = error_message,
            !.end_datetime = TRUE]

\* UPDATE ... SET process_status = 'Completed', end_datetime = NOW()
CompletedRow(r) == [r EXCEPT !.status = "Completed", !.end_datetime = TRUE]

\* update_process_status: the UPDATE may raise, which is logged and swallowed
UpdateProcessStatus(r, status, ok) == IF ok THEN StatusRow(r, status) ELSE r

\* the writes a statement adds to the history of the row
Wrote(old, new) == IF new = old THEN <<>> ELSE <<new>>

\* what an earlier run left in a customer report table
EarlierRows == [prev_include |-> 1, prev_exclude |-> 1, include |-> 0, exclude |-> 0]

\* the summary rows an earlier run left behind
EarlierCountRow ==
  [process_id |-> Len(earlierRuns), customer_name |-> "caplin_master_report",
   include_count |-> 1, exclude_count |-> 1, total_count |-> 2]
EarlierOverallRow ==
  [process_id |-> Len(earlierRuns), customer_id |-> 1, y_count |-> 1, n_count |-> 1]

\* what no run has touched yet
Untouched ==
  /\ exitCode = -1
  /\ faults = 0
  /\ trackerInOutput = FALSE
  /\ outputDir = "none"
  /\ masterTrackerPath = FALSE
  /\ processId = 0
  /\ run = NoRun
  /\ runWrites = <<>>
  /\ logReport = <<>>
  /\ reportTable = [t \in ReportTables |-> EarlierRows]
  /\ truncated = {}
  /\ inclusion_exclusion_counts = << EarlierCountRow >>
  /\ overall_count_report = << EarlierOverallRow >>
  /\ customerList = <<>>
  /\ custIdx = 0
  /\ custInput = [c \in Customers |-> NoInput]
  /\ custResult = [c \in Customers |-> "none"]
  /\ total_customers = 0
  /\ processed_customers = 0
  /\ failed_customers = 0
  /\ validated = "none"
  /\ notifications = <<>>
  /\ trace = <<>>

InitState ==
  /\ pc = "startup"
  /\ trackerContent \in TrackerContents
  /\ trackerLoc \in {"Intake", "Absent"}
  /\ inProgressLeftover \in BOOLEAN
  /\ fileLoc \in [Customers -> [Files -> {"Intake", "Absent"}]]
  /\ \A c \in Customers : \A f \in Files :
        fileLoc[c][f] = "Intake" => \A g \in 1..f : fileLoc[c][g] = "Intake"
  /\ Untouched
  /\ SaltIdle /\ ClassifyIdle /\ TxnIdle /\ RunsIdle /\ ApiIdle

\* the database and the filesystem answer every call
Init == InitState /\ ioFaults = FALSE

\* any database statement or file operation may raise
InitIOFaults == InitState /\ ioFaults = TRUE

\* main() is not running
WorkflowIdle ==
  /\ pc = "off"
  /\ ioFaults = FALSE
  /\ trackerContent = "valid"
  /\ trackerLoc = "Absent"
  /\ inProgressLeftover = FALSE
  /\ fileLoc = [c \in Customers |-> [f \in Files |-> "Absent"]]
  /\ Untouched

\* ------------------------------------------------------------------- main()
\* main(): "if not workflow.initialize_process(): raise", with
\* initialize_process: "if not self.move_to_inprogress(): raise"
AfterMoveToInprogress(ok) == IF ok THEN "validate_master_tracker" ELSE "return1"

\* variant of AfterValidate that goes on after a failed validation; C10 must
\* reject it
AfterValidateUngated(ok) == "master_tracker_update"

\* initialize_process: "if not self.validate_master_tracker(): raise"
AfterValidate(ok) == IF ok THEN "master_tracker_update" ELSE "return1"

\* variant of AfterMasterTrackerUpdate that treats a False of
\* master_tracker_update like the other steps' False; C27 must reject it
AfterMasterTrackerUpdateChecked(ok) == IF ok THEN "generate_report" ELSE "return1"

\* main(): a False of master_tracker_update is only a warning
AfterMasterTrackerUpdate(ok) == "generate_report"

\* main(): "if not workflow.generate_report(): raise"
AfterGenerateReport(ok) == IF ok THEN "move_to_bot_out" ELSE "return1"

\* variant of AfterMoveToBotOut that ignores the False of move_to_bot_out; C8
\* must reject it
AfterMoveToBotOutUnchecked(ok) == "complete_process"

\* main(): "if not workflow.move_to_bot_out(): raise"
AfterMoveToBotOut(ok) == IF ok THEN "complete_process" ELSE "return1"

\* main(): the return value of complete_process is not looked at
AfterCompleteProcess(ok) == "return0"

\* main() steps 1-7: logger, database connection, configurations, collaborators
Startup ==
  /\ pc = "startup"
  /\ \E connected \in IO(faults) :
       /\ pc' = IF connected THEN "initialize_process" ELSE "return1"
       /\ faults' = IF connected THEN faults ELSE faults + 1
  /\ trace' = Append(trace, "startup")
  /\ UNCHANGED notWorkflow
  /\ UNCHANGED inProgressLeftover
  /\ UNCHANGED << exitCode, ioFaults, trackerContent, trackerLoc, trackerInOutput,
                  outputDir, masterTrackerPath, fileLoc, processId, run, runWrites,
                  logReport, reportTable, truncated, customerList, custIdx,
                  custInput, custResult, total_customers, processed_customers,
                  failed_customers, validated, notifications,
                  inclusion_exclusion_counts, overall_count_report >>

\* main(): return 0 after the summary, return 1 from the except clause
MainReturn ==
  /\ pc \in {"return0", "return1"}
  /\ exitCode' = IF pc = "return0" THEN 0 ELSE 1
  /\ pc' = "done"
  /\ trace' = Append(trace, "return")
  /\ UNCHANGED notWorkflow
  /\ UNCHANGED inProgressLeftover
  /\ UNCHANGED << ioFaults, faults, trackerContent, trackerLoc, trackerInOutput,
                  outputDir, masterTrackerPath, fileLoc, processId, run, runWrites,
                  logReport, reportTable, truncated, customerList, custIdx,
                  custInput, custResult, total_customers, processed_customers,
                  failed_customers, validated, notifications,
                  inclusion_exclusion_counts, overall_count_report >>

\* ------------------------------------------------------- initialize_process
\* the checks of initialize_process before the tracker is touched
InitializeProcess ==
  /\ pc = "initialize_process"
  /\ LET list_excel_files == trackerLoc = "Intake"
         client_files == \E c \in Customers : \E f \in Files : fileLoc[c][f] = "Intake"
     IN  pc' = IF list_excel_files /\ client_files
               THEN "move_to_inprogress" ELSE "return1"
  /\ trace' = Append(trace, "initialize_process")
  /\ UNCHANGED notWorkflow
  /\ UNCHANGED inProgressLeftover
  /\ UNCHANGED << exitCode, ioFaults, faults, trackerContent, trackerLoc,
                  trackerInOutput, outputDir, masterTrackerPath, fileLoc, processId,
                  run, runWrites, logReport, reportTable, truncated, customerList,
                  custIdx, custInput, custResult, total_customers,
                  processed_customers, failed_customers, validated, notifications,
                  inclusion_exclusion_counts, overall_count_report >>

\* "Clean inprogress directory" of move_to_inprogress and move_to_bot_out:
\* each item is removed; a removal that raises is logged and the item stays
CleanedLeftover(leftover, removed) == leftover /\ ~removed

\* move_to_inprogress: insert the run row, read its id, clean InProgress,
\* move the tracker in, write 'File Moved to Inprogress'.
\* io = outcomes of the INSERT, get_max_id, the move, the status UPDATE, the
\* removal of what InProgress held.
MoveToInprogress ==
  /\ pc = "move_to_inprogress"
  /\ \E io \in IOs(5, faults) :
       LET inserted == io[1]
           gotId == inserted /\ io[2]
           ok == gotId /\ io[3]
           r0 == IF inserted THEN InsertedRunRow ELSE run
           r1 == IF ok
                 THEN UpdateProcessStatus(r0, "File Moved to Inprogress", io[4])
                 ELSE r0
       IN  \* an operation that is not reached does not raise
           /\ inserted \/ (io[2] /\ io[3] /\ io[4])
           /\ gotId \/ (io[3] /\ io[4])
           /\ ok \/ io[4]
           /\ (gotId /\ inProgressLeftover) \/ io[5]
           /\ inProgressLeftover' =
                IF gotId THEN CleanedLeftover(inProgressLeftover, io[5])
                ELSE inProgressLeftover
           /\ run' = r1
           /\ runWrites' = runWrites \o Wrote(run, r0) \o Wrote(r0, r1)
           /\ processId' = IF gotId THEN Len(earlierRuns) + 1 ELSE processId
           /\ trackerLoc' = IF ok THEN "InProgress" ELSE trackerLoc
           /\ masterTrackerPath' = ok
           /\ pc' = AfterMoveToInprogress(ok)
           /\ faults' = faults + Raised(io)
  /\ trace' = Append(trace, "move_to_inprogress")
  /\ UNCHANGED notWorkflow
  /\ UNCHANGED << exitCode, ioFaults, trackerContent, trackerInOutput,
                  outputDir, fileLoc, logReport, reportTable, truncated,
                  customerList, custIdx, custInput, custResult, total_customers,
                  processed_customers, failed_customers, validated, notifications,
                  inclusion_exclusion_counts, overall_count_report >>

\* ------------------------------------------------------------ move_to_failed
\* the mail send_failure_notification is handed
FailureMail(error_message) ==
  [kind |-> "failure", process_id |-> processId, error_message |-> error_message]

\* move_to_failed(error_message) applied to run row r, tracker location tl and
\* output directory od; io = outcomes of makedirs, the two moves, the UPDATE.
\* Everything after a raising makedirs or UPDATE is skipped (outer except).
MoveToFailed(r, tl, od, error_message, io) ==
  LET mk == io[1]
      db == mk /\ io[4]
  IN  [ trackerLoc |-> IF mk /\ masterTrackerPath /\ tl = "InProgress" /\ io[2]
                       THEN "Failed" ELSE tl,
        outputDir  |-> IF mk /\ od = "Output" /\ io[3] THEN "Failed" ELSE od,
        run        |-> IF db THEN FailedRow(r, error_message) ELSE r,
        mails      |-> IF db THEN << FailureMail(error_message) >> ELSE <<>> ]

\* the operations of move_to_failed that are not reached do not raise
MoveToFailedReached(tl, od, io) ==
  /\ io[1] \/ (io[2] /\ io[3] /\ io[4])
  /\ (masterTrackerPath /\ tl = "InProgress") \/ io[2]
  /\ od = "Output" \/ io[3]

\* --------------------------------------------------- validate_master_tracker
\* error_msg of validate_master_tracker: the text of the exception raised two
\* lines above it, whatever the tracker lacks
ValidationErrorMessage(content) ==
  << "Wrong Master Tracker File was uploaded - Column/Sheet not found",
     "Master tracker validation failed - columns or sheet not found" >>

\* variant of StatusAfterValidation that repeats the literal of
\* move_to_inprogress; C7 must reject it
StatusAfterValidationStale == "File Moved to Inprogress"

\* the status validate_master_tracker writes before it returns True
StatusAfterValidation == "Master Tracker Validation Completed"

\* variant of ParseResult that looks for the product column only; C11 must
\* reject it
ParseResultProductOnly(content, readable) ==
  content # "product_col_missing" /\ readable

\* parse_excel_with_dynamic_header: rows, or None when the sheet or a column is
\* not found or the file cannot be read
ParseResult(content, readable) == content = "valid" /\ readable

\* io = outcomes of the first status UPDATE, the column-name lookup, the read
\* of the workbook, the second status UPDATE
ValidateMasterTracker ==
  /\ pc = "validate_master_tracker"
  /\ \E io \in IOs(4, faults) :
       LET r1 == UpdateProcessStatus(run, "Master Tracker Validation Initiated", io[1])
           colnames == io[2]
           parsed == ParseResult(trackerContent, io[3])
           r2 == UpdateProcessStatus(r1, StatusAfterValidation, io[4])
       IN  /\ colnames \/ (io[3] /\ io[4])
           /\ parsed \/ io[4]
           /\ IF ~colnames
              THEN \* the column-name lookup raises or is empty: outer except
                   /\ run' = r1
                   /\ runWrites' = runWrites \o Wrote(run, r1)
                   /\ validated' = "failed"
                   /\ faults' = faults + Raised(io)
                   /\ trace' = Append(trace, "validate_master_tracker")
                   /\ UNCHANGED << trackerLoc, outputDir, notifications >>
              ELSE IF ~parsed
              THEN \E mio \in IOs(4, faults + Raised(io)) :
                     LET mtf == MoveToFailed(r1, trackerLoc, outputDir,
                                             ValidationErrorMessage(trackerContent), mio)
                     IN  /\ MoveToFailedReached(trackerLoc, outputDir, mio)
                         /\ run' = mtf.run
                         /\ runWrites' = runWrites \o Wrote(run, r1) \o Wrote(r1, mtf.run)
                         /\ trackerLoc' = mtf.trackerLoc
                         /\ outputDir' = mtf.outputDir
                         /\ notifications' = notifications \o mtf.mails
                         /\ validated' = "failed"
                         /\ faults' = faults + Raised(io) + Raised(mio)
                         /\ trace' = trace \o << "validate_master_tracker",
                                                 "move_to_failed" >>
              ELSE /\ run' = r2
                   /\ runWrites' = runWrites \o Wrote(run, r1) \o Wrote(r1, r2)
                   /\ validated' = "ok"
                   /\ faults' = faults + Raised(io)
                   /\ trace' = Append(trace, "validate_master_tracker")
                   /\ UNCHANGED << trackerLoc, outputDir, notifications >>
  /\ pc' = AfterValidate(validated' = "ok")
  /\ UNCHANGED notWorkflow
  /\ UNCHANGED inProgressLeftover
  /\ UNCHANGED << exitCode, ioFaults, trackerContent, trackerInOutput,
                  masterTrackerPath, fileLoc, processId, logReport, reportTable,
                  truncated, customerList, custIdx, custInput, custResult,
                  total_customers, processed_customers, failed_customers,
                  inclusion_exclusion_counts, overall_count_report >>

\* ---------------------------------------------------- master_tracker_update
\* variant of NextCustomerIndex that leaves the loop at the first customer that
\* failed; C5 must reject it
NextCustomerIndexStopOnFailure(i, result) ==
  IF result THEN i + 1 ELSE Len(customerList) + 1

\* the for loop of master_tracker_update goes on to the next customer whatever
\* execute_each_customer returned
NextCustomerIndex(i, result) == i + 1

\* "if self.execute_each_customer(...): processed += 1 else: failed += 1"
CountProcessed(n, result) == IF result THEN n + 1 ELSE n
CountFailed(n, result) == IF result THEN n ELSE n + 1

\* variant of ActiveCustomers whose query lacks the ORDER BY and yields the
\* customers in descending order; C15 must reject it
ActiveCustomersUnordered(n) == [i \in 1..n |-> n + 1 - i]

\* "SELECT customer_id, customer_name ... WHERE status = 1 ORDER BY customer_id"
\* when n customers are active
ActiveCustomers(n) == [i \in 1..n |-> i]

\* master_tracker_update up to its loop: the active customers by customer_id
MasterTrackerUpdate ==
  /\ pc = "master_tracker_update"
  /\ \E queried \in IO(faults), n \in 0..MaxCustomers :
       LET customer_list == IF queried THEN ActiveCustomers(n) ELSE <<>>
       IN  /\ queried \/ n = 0
           /\ customerList' = customer_list
           /\ total_customers' = Len(customer_list)
           /\ custIdx' = IF customer_list = <<>> THEN 0 ELSE 1
           /\ pc' = IF customer_list = <<>>
                    THEN AfterMasterTrackerUpdate(FALSE)
                    ELSE "execute_each_customer"
           /\ faults' = IF queried THEN faults ELSE faults + 1
  /\ trace' = Append(trace, "master_tracker_update")
  /\ UNCHANGED notWorkflow
  /\ UNCHANGED inProgressLeftover
  /\ UNCHANGED << exitCode, ioFaults, trackerContent, trackerLoc, trackerInOutput,
                  outputDir, masterTrackerPath, fileLoc, processId, run, runWrites,
                  logReport, reportTable, truncated, custInput, custResult,
                  processed_customers, failed_customers, validated, notifications,
                  inclusion_exclusion_counts, overall_count_report >>

\* ----------------------------------------------------- execute_each_customer
\* f"Failed while processing {customer_name} customer - {filename}"
FailureMessage(customer_name, filename) ==
  [text |-> "Failed while processing", customer_name |-> customer_name,
   filename |-> filename]

\* failure_message of a row that has not failed
NoMessage == [text |-> "", customer_name |-> 0, filename |-> << >>]

\* INSERT INTO log_report (process_id, customer_id, initiated_sts, ...)
LogEntry(c, filename) ==
  [ process_id |-> processId, customer_id |-> c, customer_name |-> c,
    filename |-> filename, initiated_sts |-> TRUE, completed_sts |-> FALSE,
    failed_sts |-> FALSE, failure_message |-> NoMessage, end_datetime |-> FALSE ]

\* the rows earlier runs left in log_report: a completed and a failed customer
earlierLogReport ==
  << [ process_id |-> Len(earlierRuns), customer_id |-> 1, customer_name |-> 1,
       filename |-> << 1, 1 >>, initiated_sts |-> TRUE, completed_sts |-> TRUE,
       failed_sts |-> FALSE, failure_message |-> NoMessage, end_datetime |-> TRUE ],
     [ process_id |-> Len(earlierRuns), customer_id |-> 2, customer_name |-> 2,
       filename |-> << 2, 1 >>, initiated_sts |-> TRUE, completed_sts |-> FALSE,
       failed_sts |-> TRUE, failure_message |-> FailureMessage(2, << 2, 1 >>),
       end_datetime |-> TRUE ] >>

\* get_max_id(log_report, 'log_id', "process_id=... AND customer_id=...")
GetLogId(log, c) ==
  LET ids == { i \in 1..Len(log) :
                 log[i].process_id = processId /\ log[i].customer_id = c }
  IN  IF ids = {} THEN 0 ELSE CHOOSE i \in ids : \A j \in ids : j <= i

\* UPDATE log_report SET completed_sts = '1', end_datetime = NOW() WHERE log_id = %s
MarkCompleted(log, log_id) ==
  [log EXCEPT ![log_id].completed_sts = TRUE, ![log_id].end_datetime = TRUE]

\* UPDATE log_report SET failed_sts = '1', failure_message = %s, end_datetime = NOW()
MarkFailed(log, log_id, error_msg) ==
  [log EXCEPT ![log_id].failed_sts = TRUE, ![log_id].failure_message = error_msg,
              ![log_id].end_datetime = TRUE]

\* TRUNCATE TABLE of a customer report table
Truncate(tables, t) ==
  [tables EXCEPT ![t] = [prev_include |-> 0, prev_exclude |-> 0,
                         include |-> 0, exclude |-> 0]]

\* include_exclude_status of the rows of a customer sheet, as the processor's
\* classifier decides them
SheetRows == << "exclude", "include", "include" >>

\* how many rows have the given status
CountOf(rows, status) == Cardinality({ i \in DOMAIN rows : rows[i] = status })

\* the rows a processor inserts, each with this run's process_id
InsertRows(tables, t, rows) ==
  [tables EXCEPT ![t].include = @ + CountOf(rows, "include"),
                 ![t].exclude = @ + CountOf(rows, "exclude")]

\* "for row_data in sheet_values: try: ... except Exception: ... continue":
\* the rows that reach the table; a row that raises is left out
RowsInserted(rows, outcome) == IF outcome = "rowerror" THEN Tail(rows) ELSE rows

\* variant of Processor that takes a sheet it cannot read for an empty one and
\* returns True with no row inserted; C32 must reject it
ProcessorEmptySheetOk(name, outcome, truncOk, tables) ==
  LET t == ReportTableOf(name)
  IN  IF outcome = "badconfig" \/ ~truncOk
      THEN [status |-> FALSE, tables |-> tables, truncated |-> {}]
      ELSE IF outcome = "nodata"
      THEN [status |-> TRUE, tables |-> Truncate(tables, t), truncated |-> {t}]
      ELSE [status |-> TRUE,
            tables |-> InsertRows(Truncate(tables, t), t,
                                  RowsInserted(SheetRows, outcome)),
            truncated |-> {t}]

\* one of the six processors run on a customer file; each catches what it
\* raises outside the row loop and returns False, and returns True after the
\* loop whatever happened to single rows.  truncOk: the TRUNCATE succeeded.
Processor(name, outcome, truncOk, tables) ==
  LET t == ReportTableOf(name)
  IN  IF outcome = "badconfig" \/ ~truncOk
      THEN [status |-> FALSE, tables |-> tables, truncated |-> {}]
      ELSE IF outcome = "nodata"
      THEN [status |-> FALSE, tables |-> Truncate(tables, t), truncated |-> {t}]
      ELSE [status |-> TRUE,
            tables |-> InsertRows(Truncate(tables, t), t,
                                  RowsInserted(SheetRows, outcome)),
            truncated |-> {t}]

\* variant of ProcessCustomerFile that takes an unknown name for nothing to
\* do and returns True; C4 must reject it
ProcessCustomerFileLenient(name, outcome, truncOk, tables) ==
  IF name \notin processor_map
  THEN [status |-> TRUE, tables |-> tables, truncated |-> {}]
  ELSE Processor(name, outcome, truncOk, tables)

\* process_customer_file: processor_map.get(subprocess_name); an unknown name
\* returns False, a known one returns what its processor returns
ProcessCustomerFile(name, outcome, truncOk, tables) ==
  IF name \notin processor_map
  THEN [status |-> FALSE, tables |-> tables, truncated |-> {}]
  ELSE Processor(name, outcome, truncOk, tables)

\* variant of MoveToProcessed that leaves the file where it is; C2 must
\* reject it
MoveToProcessedNoMove(loc, moved) == loc

\* move_to_processed: the file goes to Processed/<process_id>/<customer_name>/;
\* a raise of makedirs or of the move is logged and swallowed
MoveToProcessed(loc, moved) ==
  IF loc = "InProgress" /\ moved THEN "Processed" ELSE loc

\* move_failed_clientfile: if the file exists it goes to
\* Failed/<process_id>/<customer_name>/ and then, if log_id is set, the log row
\* is marked failed; io = outcomes of the move (with its makedirs), the UPDATE
MoveFailedClientfile(log, log_id, customer_name, filename, loc, io) ==
  IF loc = "InProgress" /\ io[1]
  THEN [ loc |-> "Failed",
         log |-> IF log_id # 0 /\ io[2]
                 THEN MarkFailed(log, log_id, FailureMessage(customer_name, filename))
                 ELSE log ]
  ELSE [loc |-> loc, log |-> log]

\* variant of SkipReturn that reports the skipped customer as failed; C6 must
\* reject it
SkipReturnFalse == FALSE

\* "return True  # Continue with next customer": no configuration row, no file
SkipReturn == TRUE

\* variant of FileMoved that takes every file of the customer's Intake folder
\* along with the first; C40 must reject it
FileMovedWithFolder(locs, c, f, loc) ==
  [locs EXCEPT ![c] = [g \in Files |->
     IF g = f \/ (loc # "Intake" /\ locs[c][g] = "Intake") THEN loc ELSE locs[c][g]]]

\* where the files are once list_files[0], the f-th file of customer c's
\* folder, has ended up at loc; no other file is touched
FileMoved(locs, c, f, loc) == [locs EXCEPT ![c][f] = loc]

\* what every return of execute_each_customer leaves behind, and the loop step
\* of master_tracker_update that follows it
CustomerReturns(c, input, result, log, loc, tables, trunc, raised) ==
  /\ custInput' = [custInput EXCEPT ![c] = input]
  /\ custResult' = [custResult EXCEPT ![c] = IF result THEN "True" ELSE "False"]
  /\ logReport' = log
  /\ fileLoc' = IF input.file = 0 THEN fileLoc
                ELSE FileMoved(fileLoc, c, input.file, loc)
  /\ reportTable' = tables
  /\ truncated' = truncated \cup trunc
  /\ processed_customers' = CountProcessed(processed_customers, result)
  /\ failed_customers' = CountFailed(failed_customers, result)
  /\ custIdx' = NextCustomerIndex(custIdx, result)
  /\ pc' = IF custIdx' > Len(customerList)
           THEN AfterMasterTrackerUpdate(TRUE) ELSE pc
  /\ faults' = raised
  /\ trace' = Append(trace, "execute_each_customer")
  /\ UNCHANGED notWorkflow
  /\ UNCHANGED inProgressLeftover
  /\ UNCHANGED << exitCode, ioFaults, trackerContent, trackerLoc, trackerInOutput,
                  outputDir, masterTrackerPath, processId, run, runWrites,
                  customerList, total_customers, validated, notifications,
                  inclusion_exclusion_counts, overall_count_report >>

\* the part of execute_each_customer after the file was moved to InProgress;
\* n operations have raised so far
StagedCustomer(c, input, log1, log_id, n) ==
  \E truncOk \in IO(n) :
    LET filename == << c, input.file >>
        p == ProcessCustomerFile(input.name, input.outcome, truncOk, reportTable)
        n1 == IF truncOk THEN n ELSE n + 1
    IN  /\ (input.name \in processor_map /\ input.outcome # "badconfig") \/ truncOk
        /\ IF ~p.status
           THEN \E io \in IOs(2, n1) :
                  LET m == MoveFailedClientfile(log1, log_id, c, filename,
                                                "InProgress", io)
                  IN  /\ io[1] \/ io[2]
                      /\ CustomerReturns(c, input, FALSE, m.log, m.loc, p.tables,
                                         p.truncated, n1 + Raised(io))
           ELSE \E io \in IOs(2, n1) :
                  LET loc1 == MoveToProcessed("InProgress", io[1])
                      n2 == n1 + Raised(io)
                  IN  IF io[2]
                      THEN CustomerReturns(c, input, TRUE, MarkCompleted(log1, log_id),
                                           loc1, p.tables, p.truncated, n2)
                      ELSE \* except: "if client_filepath and os.path.exists(...)"
                           IF loc1 = "InProgress"
                           THEN \E fio \in IOs(2, n2) :
                                  LET m == MoveFailedClientfile(log1, log_id, c,
                                                                filename, loc1, fio)
                                  IN  /\ fio[1] \/ fio[2]
                                      /\ CustomerReturns(c, input, FALSE, m.log, m.loc,
                                                         p.tables, p.truncated,
                                                         n2 + Raised(fio))
                           ELSE CustomerReturns(c, input, FALSE, log1, loc1,
                                                p.tables, p.truncated, n2)

\* execute_each_customer for the customer the loop is at
ExecuteEachCustomer ==
  /\ pc = "execute_each_customer"
  /\ custIdx \in 1..Len(customerList)
  /\ LET c == customerList[custIdx]
         \* os.listdir(customer_dirpath): files are numbered in listing order
         list_files == SelectSeq([f \in Files |-> f],
                                 LAMBDA f : fileLoc[c][f] = "Intake")
     IN  \E config \in {"row", "none"} \cup (IF Budget(faults) > 0 THEN {"raise"} ELSE {}) :
           IF config # "row"
           THEN \* no configuration row: skip (True); the query raised: False
                CustomerReturns(c, [NoInput EXCEPT !.config = config],
                                config = "none" /\ SkipReturn, logReport, "-", reportTable, {},
                                IF config = "raise" THEN faults + 1 ELSE faults)
           ELSE \E name \in SubprocessNames :
                IF list_files = <<>>
                THEN \* no file found: skip
                     CustomerReturns(c, [NoInput EXCEPT !.config = config,
                                                        !.name = name],
                                     SkipReturn, logReport, "-", reportTable, {},
                                     faults)
                ELSE \E io \in IOs(3, faults) :
                  \* io = outcomes of the INSERT, get_max_id, the move to InProgress
                  LET f == list_files[1]
                      unread == [config |-> config, name |-> name, outcome |-> "-",
                                 file |-> f]
                      log1 == Append(logReport, LogEntry(c, << c, f >>))
                      n == faults + Raised(io)
                  IN  /\ io[1] \/ (io[2] /\ io[3])
                      /\ io[2] \/ io[3]
                      /\ IF ~io[1]
                         THEN CustomerReturns(c, unread, FALSE, logReport, "Intake",
                                              reportTable, {}, n)
                         ELSE IF ~io[2] \/ ~io[3]
                         THEN \* except: nothing exists at client_filepath
                              CustomerReturns(c, unread, FALSE, log1, "Intake",
                                              reportTable, {}, n)
                         ELSE IF name \notin processor_map
                         THEN StagedCustomer(c, unread, log1, GetLogId(log1, c), n)
                         ELSE \E outcome \in ProcessorOutcomes :
                                StagedCustomer(c, [unread EXCEPT !.outcome = outcome],
                                               log1, GetLogId(log1, c), n)

\* ------------------------------------------------------------ generate_report
\* customer_tables of generate_include_exclude_count_report, in its order
customer_tables ==
  << "caplin_master_report", "bells_master_report", "relonchem_master_report",
     "marksans_usa_master_report", "padagis_usa_master_report",
     "padagis_israle_master_report" >>

\* table_mapping of generate_overall_report: the report table a customer's
\* name stands for; the c-th customer carries the name of the c-th table
CustomerTableKey(c) ==
  IF c \in DOMAIN customer_tables THEN customer_tables[c] ELSE "none"

\* variant of StatusCounts whose query lacks "WHERE process_id = %s"; C18 must
\* reject it
StatusCountsOfAllRuns(tables, t) ==
  [include |-> tables[t].include + tables[t].prev_include,
   exclude |-> tables[t].exclude + tables[t].prev_exclude]

\* "SELECT include_exclude_status, COUNT(*) ... WHERE process_id = %s
\*  GROUP BY include_exclude_status", read into include_count / exclude_count
StatusCounts(tables, t) ==
  [include |-> tables[t].include, exclude |-> tables[t].exclude]

\* the row generate_include_exclude_count_report inserts for table t
CountRow(tables, t) ==
  LET n == StatusCounts(tables, t)
  IN  [process_id |-> processId, customer_name |-> t,
       include_count |-> n.include, exclude_count |-> n.exclude,
       total_count |-> n.include + n.exclude]

\* the row generate_overall_report inserts for customer c
OverallRow(tables, c) ==
  LET n == StatusCounts(tables, CustomerTableKey(c))
  IN  [process_id |-> processId, customer_id |-> c,
       y_count |-> n.include, n_count |-> n.exclude]

\* variant of IncludeExcludeCountReport without the two TRUNCATEs; C19 must
\* reject it
IncludeExcludeCountReportAppending(counts, overall, tables, truncOk, statsOk) ==
  [counts |-> counts \o [i \in DOMAIN customer_tables |->
                           CountRow(tables, customer_tables[i])],
   overall |-> overall]

\* generate_include_exclude_count_report: both summary tables are truncated,
\* then one row per customer table is inserted.  A raising TRUNCATE ends the
\* report (outer except); a raising statement for the first table costs that
\* table's row only (inner except).
IncludeExcludeCountReport(counts, overall, tables, truncOk, statsOk) ==
  IF ~truncOk THEN [counts |-> counts, overall |-> overall]
  ELSE LET listed == SelectSeq(customer_tables,
                               LAMBDA t : statsOk \/ t # customer_tables[1])
       IN  [counts |-> [i \in DOMAIN listed |-> CountRow(tables, listed[i])],
            overall |-> <<>>]

\* generate_overall_report: nothing is written when no customer is active or
\* the tracker cannot be read; else one row per active customer whose name
\* is in table_mapping
OverallReport(overall, tables, customers, readOk) ==
  IF customers = <<>> \/ ~readOk THEN overall
  ELSE LET named == SelectSeq(customers, LAMBDA c : CustomerTableKey(c) # "none")
       IN  overall \o [i \in DOMAIN named |-> OverallRow(tables, named[i])]

\* the two summary tables after generate_report ran on them
Aggregated(counts, overall, tables, customers, truncOk, statsOk, readOk) ==
  LET r == IncludeExcludeCountReport(counts, overall, tables, truncOk, statsOk)
  IN  [counts |-> r.counts,
       overall |-> OverallReport(r.overall, tables, customers, readOk)]

\* generate_report: the output directory and the report workbook are created,
\* then the two sub-reports run; a sub-report that fails is only a warning.
\* io = outcomes of the creation of directory and workbook, the TRUNCATEs, the
\* statistics of the first customer table, the read of the tracker
GenerateReport ==
  /\ pc = "generate_report"
  /\ \E io \in IOs(4, faults) :
       LET made == io[1]
           readable == masterTrackerPath /\ trackerLoc = "InProgress" /\ io[4]
           r == Aggregated(inclusion_exclusion_counts, overall_count_report,
                           reportTable, customerList, io[2], io[3], readable)
       IN  /\ made \/ (io[2] /\ io[3] /\ io[4])
           /\ io[2] \/ io[3]
           /\ outputDir' = IF made THEN "Output" ELSE outputDir
           /\ inclusion_exclusion_counts' =
                IF made THEN r.counts ELSE inclusion_exclusion_counts
           /\ overall_count_report' =
                IF made THEN r.overall ELSE overall_count_report
           /\ pc' = AfterGenerateReport(made)
           /\ faults' = faults + Raised(io)
  /\ trace' = Append(trace, "generate_report")
  /\ UNCHANGED notWorkflow
  /\ UNCHANGED inProgressLeftover
  /\ UNCHANGED << exitCode, ioFaults, trackerContent, trackerLoc, trackerInOutput,
                  masterTrackerPath, fileLoc, processId, run, runWrites, logReport,
                  reportTable, truncated, customerList, custIdx, custInput,
                  custResult, total_customers, processed_customers,
                  failed_customers, validated, notifications >>

\* ------------------------------------------------------------ move_to_bot_out
\* SELECT customer_name, filename ... WHERE completed_sts = '1' AND process_id = %s
CompletedFiles(log) ==
  LET rows == SelectSeq(log, LAMBDA e : e.completed_sts /\ e.process_id = processId)
  IN  [i \in 1..Len(rows) |-> << rows[i].customer_name, rows[i].filename >>]

\* variant of FailedFiles whose query lacks "AND process_id = %s"; C16 must
\* reject it
FailedFilesOfAllRuns(log) ==
  LET rows == SelectSeq(log, LAMBDA e : e.failed_sts)
  IN  [i \in 1..Len(rows) |->
         << rows[i].customer_name, rows[i].filename, rows[i].failure_message >>]

\* SELECT customer_name, filename, failure_message ... WHERE failed_sts = '1' AND ...
FailedFiles(log) ==
  LET rows == SelectSeq(log, LAMBDA e : e.failed_sts /\ e.process_id = processId)
  IN  [i \in 1..Len(rows) |->
         << rows[i].customer_name, rows[i].filename, rows[i].failure_message >>]

\* variant of AllFailed that does not look at the completed files; C1 must
\* reject it
AllFailedIgnoringCompleted(completed_files, failed_files) ==
  failed_files # <<>>

\* "if (not completed_files or len(completed_files) == 0) and failed_files and
\*  len(failed_files) > 0"
AllFailed(completed_files, failed_files) ==
  completed_files = <<>> /\ failed_files # <<>>

\* "Below files failed during processing:" and one numbered line per failed file
AggregateErrorMessage(failed_files) ==
  << "Below files failed during processing:",
     [i \in 1..Len(failed_files) |-> << i >> \o failed_files[i]] >>

\* the mail send_success_notification is handed
SuccessMail(completed_files, failed_files) ==
  [kind |-> "success", process_id |-> processId,
   error_message |-> << completed_files, failed_files >>]

\* "Clean inprogress directory": every item of InProgress whose removal works
CleanedFiles(locs, removed) ==
  [c \in Customers |-> [f \in Files |->
     IF locs[c][f] = "InProgress" /\ removed THEN "Deleted" ELSE locs[c][f]]]

\* variant of CleanedTracker for a cleanup that removes directories only; C17
\* must reject it
CleanedTrackerKept(loc, removed) == loc

\* "Clean inprogress directory": the tracker is a file of InProgress
CleanedTracker(loc, removed) ==
  IF loc = "InProgress" /\ removed THEN "Deleted" ELSE loc

\* io = outcomes of the two SELECTs, the copy of the tracker, the listing of the
\* output directory, the removal of the tracker and of the customer folders
MoveToBotOut ==
  /\ pc = "move_to_bot_out"
  /\ \E queried \in IO(faults) :
       LET completed_files == CompletedFiles(earlierLogReport \o logReport)
           failed_files == FailedFiles(earlierLogReport \o logReport)
           n == IF queried THEN faults ELSE faults + 1
       IN  IF ~queried
           THEN /\ pc' = AfterMoveToBotOut(FALSE)
                /\ faults' = n
                /\ trace' = Append(trace, "move_to_bot_out")
                /\ UNCHANGED << trackerLoc, trackerInOutput, outputDir, fileLoc, run,
                                runWrites, notifications, inProgressLeftover >>
           ELSE IF AllFailed(completed_files, failed_files)
           THEN \E mio \in IOs(4, n) :
                  LET mtf == MoveToFailed(run, trackerLoc, outputDir,
                                          AggregateErrorMessage(failed_files), mio)
                  IN  /\ MoveToFailedReached(trackerLoc, outputDir, mio)
                      /\ run' = mtf.run
                      /\ runWrites' = runWrites \o Wrote(run, mtf.run)
                      /\ trackerLoc' = mtf.trackerLoc
                      /\ outputDir' = mtf.outputDir
                      /\ notifications' = notifications \o mtf.mails
                      /\ pc' = AfterMoveToBotOut(FALSE)
                      /\ faults' = n + Raised(mio)
                      /\ trace' = trace \o << "move_to_bot_out", "move_to_failed" >>
                      /\ UNCHANGED << trackerInOutput, fileLoc, inProgressLeftover >>
           ELSE \E io \in IOs(4, n) :
                  LET exists == masterTrackerPath /\ trackerLoc = "InProgress"
                      copied == exists /\ io[1]
                      listed == io[2]
                      staged == \E c \in Customers : \E f \in Files :
                                  fileLoc[c][f] = "InProgress"
                  IN  /\ exists \/ io[1]
                      /\ listed \/ (io[3] /\ io[4])
                      /\ trackerLoc = "InProgress" \/ io[3]
                      /\ (staged \/ inProgressLeftover) \/ io[4]
                      /\ trackerInOutput' = copied
                      /\ faults' = n + Raised(io)
                      /\ IF ~listed
                         THEN /\ pc' = AfterMoveToBotOut(FALSE)
                              /\ trace' = trace \o << "move_to_bot_out", "copy" >>
                              /\ UNCHANGED << trackerLoc, fileLoc, notifications,
                                              inProgressLeftover >>
                         ELSE /\ notifications' =
                                   Append(notifications,
                                          SuccessMail(completed_files, failed_files))
                              /\ trackerLoc' = CleanedTracker(trackerLoc, io[3])
                              /\ fileLoc' = CleanedFiles(fileLoc, io[4])
                              /\ inProgressLeftover' =
                                   CleanedLeftover(inProgressLeftover, io[4])
                              /\ pc' = AfterMoveToBotOut(TRUE)
                              /\ trace' = trace \o << "move_to_bot_out", "copy",
                                                      "send_success_notification",
                                                      "clean_inprogress" >>
                      /\ UNCHANGED << outputDir, run, runWrites >>
  /\ UNCHANGED notWorkflow
  /\ UNCHANGED << exitCode, ioFaults, trackerContent, masterTrackerPath, processId,
                  logReport, reportTable, truncated, customerList, custIdx,
                  custInput, custResult, total_customers, processed_customers,
                  failed_customers, validated,
                  inclusion_exclusion_counts, overall_count_report >>

\* ----------------------------------------------------------- complete_process
CompleteProcess ==
  /\ pc = "complete_process"
  /\ \E updated \in IO(faults) :
       /\ run' = IF updated THEN CompletedRow(run) ELSE run
       /\ runWrites' = runWrites \o Wrote(run, run')
       /\ pc' = AfterCompleteProcess(updated)
       /\ faults' = IF updated THEN faults ELSE faults + 1
  /\ trace' = Append(trace, "complete_process")
  /\ UNCHANGED notWorkflow
  /\ UNCHANGED inProgressLeftover
  /\ UNCHANGED << exitCode, ioFaults, trackerContent, trackerLoc, trackerInOutput,
                  outputDir, masterTrackerPath, fileLoc, processId, logReport,
                  reportTable, truncated, customerList, custIdx, custInput,
                  custResult, total_customers, processed_customers,
                  failed_customers, validated, notifications,
                  inclusion_exclusion_counts, overall_count_report >>

\* ------------------------------------------------------------- specifications
Next ==
  \/ Startup
  \/ InitializeProcess
  \/ MoveToInprogress
  \/ ValidateMasterTracker
  \/ MasterTrackerUpdate
  \/ ExecuteEachCustomer
  \/ GenerateReport
  \/ MoveToBotOut
  \/ CompleteProcess
  \/ MainReturn

\* one run in which the database and the filesystem answer every call
Spec == Init /\ [][Next]_vars

\* one run in which up to MaxFaults database statements or file operations raise
SpecIOFaults == InitIOFaults /\ [][Next]_vars

\* ---------------------------------------------------------- get_excluded_salt
\* the characters of the texts: letters in both cases, the blank, the two
\* separators get_excluded_salt knows, and a punctuation mark
Letters == {"a", "s", "S"}
SaltChars == Letters \cup {" ", "/", ","}

Texts == UNION { [1..n -> SaltChars] : n \in 0..MaxLen }

\* the values config.excluded_saltnames is given: one salt, in either case
SaltLists == { << << "s" >> >>, << << "S" >> >> }

\* str.lower()
LowerChar(ch) == CASE ch = "S" -> "s" [] ch = "A" -> "a" [] OTHER -> ch
Lower(text) == [i \in DOMAIN text |-> LowerChar(text[i])]

\* drug_name.replace('/', ' / ').replace('+', ' + ')
RECURSIVE SpaceSeparators(_)
SpaceSeparators(text) ==
  IF text = <<>> THEN <<>>
  ELSE (IF Head(text) \in {"/", "+"} THEN << " ", Head(text), " " >>
        ELSE << Head(text) >>) \o SpaceSeparators(Tail(text))

\* str.split(): the maximal runs of non-blank characters, in order
RECURSIVE SplitFrom(_, _, _)
SplitFrom(text, part, parts) ==
  LET closed == IF part = <<>> THEN parts ELSE Append(parts, part)
  IN  IF text = <<>> THEN closed
      ELSE IF Head(text) = " " THEN SplitFrom(Tail(text), <<>>, closed)
      ELSE SplitFrom(Tail(text), Append(part, Head(text)), parts)

Split(text) == SplitFrom(text, <<>>, <<>>)

\* str.strip()
RECURSIVE LStrip(_)
LStrip(text) ==
  IF text # <<>> /\ Head(text) = " " THEN LStrip(Tail(text)) ELSE text

RECURSIVE RStrip(_)
RStrip(text) ==
  IF text # <<>> /\ text[Len(text)] = " "
  THEN RStrip(SubSeq(text, 1, Len(text) - 1)) ELSE text

Strip(text) == RStrip(LStrip(text))

\* ' '.join(filtered_parts)
RECURSIVE Join(_)
Join(parts) ==
  IF parts = <<>> THEN <<>>
  ELSE IF Len(parts) = 1 THEN parts[1]
  ELSE parts[1] \o << " " >> \o Join(Tail(parts))

\* [salt.lower() for salt in self.config.excluded_saltnames]
LoweredSalts(salts) == { Lower(salts[i]) : i \in DOMAIN salts }

\* get_excluded_salt: "" for an empty name; else the parts of the name, split
\* at blanks after '/' and '+' were set apart, without the parts that are an
\* excluded salt, joined by single blanks
get_excluded_salt(name, salts) ==
  IF name = <<>> THEN <<>>
  ELSE LET parts == Split(SpaceSeparators(name))
           filtered_parts ==
             SelectSeq([i \in DOMAIN parts |-> Strip(parts[i])],
                       LAMBDA part : Lower(part) \notin LoweredSalts(salts))
       IN  Strip(Join(filtered_parts))

\* one call of get_excluded_salt
GetExcludedSalt ==
  /\ saltPc = "call"
  /\ filtered_name' = get_excluded_salt(drug_name, excluded_saltnames)
  /\ saltPc' = "return"
  /\ UNCHANGED << drug_name, excluded_saltnames >>
  /\ UNCHANGED notSalt

InitSalt ==
  /\ WorkflowIdle /\ ClassifyIdle /\ TxnIdle /\ RunsIdle /\ ApiIdle
  /\ saltPc = "call"
  /\ drug_name \in Texts
  /\ excluded_saltnames \in SaltLists
  /\ filtered_name = <<>>

NextSalt == GetExcludedSalt

\* get_excluded_salt called on any text, with any salt list
SpecSalt == InitSalt /\ [][NextSalt]_vars

\* ------------------------------------------------- the processors' row loops
\* a cell without a value, as the spreadsheet reader hands it over (None)
NoValue == "<None>"

\* config.master_tracker_config.get('remark_default_value', '')
remark_default == "remark_default_value"

\* str(v)
Str(v) == IF v = NoValue THEN "None" ELSE v

\* str.strip() on the cell texts of the model
StripStr(v) ==
  CASE v = " " -> ""
    [] v = " Approved " -> "Approved"
    [] v = " on hold " -> "on hold"
    [] OTHER -> v

\* str.lower() on the cell texts of the model
LowerStr(v) ==
  CASE v = "Approved" -> "approved"
    [] v = "Rejected" -> "rejected"
    [] v = "None" -> "none"
    [] v = "Discontinued in 2020" -> "discontinued in 2020"
    [] v = "it''s DISCONTINUED" -> "it''s discontinued"
    [] OTHER -> v

\* comment.replace('\n', ' ').replace("'", "''").strip()
CleanComment(v) ==
  CASE v = "it's DISCONTINUED" -> "it''s DISCONTINUED"
    [] OTHER -> StripStr(v)

\* 'discontinued' in text
ContainsDiscontinued(v) == v \in {"discontinued in 2020", "it''s discontinued"}

\* the truth value Python gives a cell: None and '' are false
Truthy(v) == v \notin {NoValue, ""}

\* a row of a sheet: the fields the six processors read from row_data
BlankRow ==
  [sheetname |-> "", color_status |-> "", approval_status |-> "",
   withdrawn_date |-> "", active_ingredients |-> "a", comment |-> ""]

\* the rows an extractor may hand to each processor
RowsOf(name) ==
  CASE name = "PROCESS_CAPLIN" ->
         { [BlankRow EXCEPT !.withdrawn_date = w] :
             w \in {NoValue, "", " ", "2020-01-01"} }
    [] name = "PROCESS_BELLS" ->
         { [BlankRow EXCEPT !.color_status = cs] :
             cs \in {"Marketed", "Licence cancelled by MAH", "Not Marketed", "Unknown"} }
    [] name = "PROCESS_RELONCHEM" ->
         { [BlankRow EXCEPT !.color_status = cs] :
             cs \in {"Marketed", "Licence cancelled by the MAH", "Newly Added",
                      "Licence Application Pending"} }
    [] name = "PROCESS_MARKSANS_USA" ->
         { [BlankRow EXCEPT !.approval_status = a, !.withdrawn_date = w] :
             a \in {NoValue, "", " Approved ", "Rejected"},
             w \in {NoValue, "", "2020-01-01"} }
         \cup { [BlankRow EXCEPT !.active_ingredients = NoValue] }
    [] name = "PROCESS_PADAGIS_USA" ->
         { [BlankRow EXCEPT !.sheetname = sh, !.color_status = cs, !.comment = cm] :
             sh \in {"Contract Manufactured Products", "Padagis Products"},
             cs \in {"Red", ""},
             cm \in {"", " on hold ", "Discontinued in 2020", "it's DISCONTINUED"} }
         \cup { [BlankRow EXCEPT !.comment = NoValue] }
    [] name = "PROCESS_PADAGIS_ISRAEL" ->
         { [BlankRow EXCEPT !.active_ingredients = ai] : ai \in {"a", NoValue} }

\* the values of the two locals; prev holds what the iteration before left
\* in them
Decision(status, text) == [status |-> status, remark |-> text]

\* process_caplin: "if withdrawn_date and str(withdrawn_date).strip()"
CaplinDecision(row, prev) ==
  IF Truthy(row.withdrawn_date) /\ Truthy(StripStr(Str(row.withdrawn_date)))
  THEN Decision("exclude", "Withdrawn date is present")
  ELSE Decision("include", remark_default)

\* process_bells: "if color_status == 'Licence cancelled by MAH'"
BellsDecision(row, prev) ==
  IF row.color_status = "Licence cancelled by MAH"
  THEN Decision("exclude", "Licence cancelled by MAH")
  ELSE Decision("include", remark_default)

\* include_statuses of process_relonchem
include_statuses == {"Marketed", "Not Marketed", "Newly Added", "Invented name deleted"}

\* variant of RelonchemDecision whose include branch does not assign remark,
\* so that the remark of the row before stays; C25 must reject it
RelonchemDecisionStaleRemark(row, prev) ==
  IF row.color_status \in include_statuses
  THEN Decision("include", prev.remark)
  ELSE Decision("exclude", row.color_status)

\* process_relonchem: "if color_status in include_statuses"
RelonchemDecision(row, prev) ==
  IF row.color_status \in include_statuses
  THEN Decision("include", remark_default)
  ELSE Decision("exclude", row.color_status)

\* process_marksans_usa: approval_lower = str(approval_status).strip().lower(),
\* withdrawn_clean = str(withdrawn_date).strip()
MarksansDecision(row, prev) ==
  LET approval_lower == LowerStr(StripStr(Str(row.approval_status)))
      withdrawn_clean == StripStr(Str(row.withdrawn_date))
  IN  IF approval_lower \notin {"approved", ""}
      THEN Decision("exclude", "Approval Status is not Approved")
      ELSE IF Truthy(withdrawn_clean)
      THEN Decision("exclude", "Withdrawn Date is not empty")
      ELSE Decision("include", remark_default)

\* variant of PadagisUsaDecision that looks at the colour before the sheet;
\* C24 must reject it
PadagisUsaDecisionColourFirst(row, prev) ==
  LET comment_clean == CleanComment(row.comment)
  IN  IF row.color_status = "Red"
      THEN Decision("exclude", "Product Highlighted in Red")
      ELSE IF row.sheetname = "Contract Manufactured Products"
      THEN Decision("exclude", "Not MAH product")
      ELSE IF ContainsDiscontinued(LowerStr(comment_clean))
      THEN Decision("exclude", comment_clean)
      ELSE Decision("include", remark_default)

\* process_padagis_usa: sheet, then colour, then comment
PadagisUsaDecision(row, prev) ==
  LET comment_clean == CleanComment(row.comment)
  IN  IF row.sheetname = "Contract Manufactured Products"
      THEN Decision("exclude", "Not MAH product")
      ELSE IF row.color_status = "Red"
      THEN Decision("exclude", "Product Highlighted in Red")
      ELSE IF ContainsDiscontinued(LowerStr(comment_clean))
      THEN Decision("exclude", comment_clean)
      ELSE Decision("include", remark_default)

\* process_padagis_israel: every row is included
PadagisIsraelDecision(row, prev) == Decision("include", remark_default)

\* whether the iteration raises before the INSERT: a method of str called on
\* a cell without a value
RowRaises(name, row) ==
  CASE name = "PROCESS_MARKSANS_USA" -> row.active_ingredients = NoValue
    [] name = "PROCESS_PADAGIS_USA" ->
         row.comment = NoValue \/ row.active_ingredients = NoValue
    [] OTHER -> FALSE

\* the comment the INSERT stores with the row
StoredComment(name, row) ==
  IF name = "PROCESS_PADAGIS_USA" THEN CleanComment(row.comment) ELSE row.comment

\* one iteration of a processor's "for row_data in ...: try: ... except
\* Exception: ... continue": the locals are assigned and the row inserted,
\* unless the iteration raises first
RowStep(name, d) ==
  /\ classifyPc = "loop"
  /\ processorName = name
  /\ rowIdx <= Len(rowvalues)
  /\ IF RowRaises(name, rowvalues[rowIdx])
     THEN UNCHANGED << include_exclude_status, remark, report_rows >>
     ELSE /\ include_exclude_status' = d.status
          /\ remark' = d.remark
          /\ report_rows' =
               Append(report_rows,
                      [rowno |-> rowIdx, fields |-> rowvalues[rowIdx],
                       comment |-> StoredComment(name, rowvalues[rowIdx]),
                       include_exclude_status |-> d.status, remark |-> d.remark])
  /\ rowIdx' = rowIdx + 1
  /\ UNCHANGED << classifyPc, processorName, rowvalues >>
  /\ UNCHANGED notClassify

\* the locals as the iteration finds them
Locals == [status |-> include_exclude_status, remark |-> remark]

process_caplin ==
  rowIdx \in DOMAIN rowvalues /\
  RowStep("PROCESS_CAPLIN", CaplinDecision(rowvalues[rowIdx], Locals))

process_bells ==
  rowIdx \in DOMAIN rowvalues /\
  RowStep("PROCESS_BELLS", BellsDecision(rowvalues[rowIdx], Locals))

process_relonchem ==
  rowIdx \in DOMAIN rowvalues /\
  RowStep("PROCESS_RELONCHEM", RelonchemDecision(rowvalues[rowIdx], Locals))

process_marksans_usa ==
  rowIdx \in DOMAIN rowvalues /\
  RowStep("PROCESS_MARKSANS_USA", MarksansDecision(rowvalues[rowIdx], Locals))

process_padagis_usa ==
  rowIdx \in DOMAIN rowvalues /\
  RowStep("PROCESS_PADAGIS_USA", PadagisUsaDecision(rowvalues[rowIdx], Locals))

process_padagis_israel ==
  rowIdx \in DOMAIN rowvalues /\
  RowStep("PROCESS_PADAGIS_ISRAEL", PadagisIsraelDecision(rowvalues[rowIdx], Locals))

\* the loop is over: process_drug_names, "return True"
ProcessorReturns ==
  /\ classifyPc = "loop"
  /\ rowIdx > Len(rowvalues)
  /\ classifyPc' = "returned"
  /\ UNCHANGED << processorName, rowvalues, rowIdx, include_exclude_status,
                  remark, report_rows >>
  /\ UNCHANGED notClassify

InitClassify ==
  /\ WorkflowIdle /\ SaltIdle /\ TxnIdle /\ RunsIdle /\ ApiIdle
  /\ classifyPc = "loop"
  /\ processorName \in processor_map
  /\ \E n \in 1..MaxRows : rowvalues \in [1..n -> RowsOf(processorName)]
  /\ rowIdx = 1
  /\ include_exclude_status = "unbound"
  /\ remark = "unbound"
  /\ report_rows = <<>>

NextClassify ==
  \/ process_caplin
  \/ process_bells
  \/ process_relonchem
  \/ process_marksans_usa
  \/ process_padagis_usa
  \/ process_padagis_israel
  \/ ProcessorReturns

\* one processor going through the rows of one sheet
SpecClassify == InitClassify /\ [][NextClassify]_vars

\* ------------------------------------------------ DatabaseManager.transaction
\* the parameters of the block's INSERT statements
Params == {"p1", "p2", "p3"}

\* the database as one connection sees it
Database(rows, open) == [tableRows |-> rows, pending |-> open]

\* cursor.execute(query, params): the row joins the open transaction, or is
\* durable at once on an autocommit connection
CursorExecute(db, auto, row) ==
  IF auto THEN Database(Append(db.tableRows, row), db.pending)
  ELSE Database(db.tableRows, Append(db.pending, row))

\* connection.commit()
ConnectionCommit(db) == Database(db.tableRows \o db.pending, <<>>)

\* connection.rollback()
ConnectionRollback(db) == Database(db.tableRows, <<>>)

\* execute_update: cursor.execute, then "self.connection.commit()"; a raise
\* of cursor.execute rolls back and is raised again
execute_update(db, auto, row, ok) ==
  IF ok THEN ConnectionCommit(CursorExecute(db, auto, row))
  ELSE ConnectionRollback(db)

\* transaction(): "yield self" hands the block the manager
TransactionEnter ==
  /\ txnPc = "start"
  /\ txnPc' = "in"
  /\ UNCHANGED << autocommit, tableRows, pending, executed >>
  /\ UNCHANGED notTxn

\* one execute_update call of the block; when it raises, the exception leaves
\* the block and transaction() rolls back and raises it again
ExecuteUpdate ==
  /\ txnPc = "in"
  /\ Len(executed) < MaxStatements
  /\ \E row \in Params, ok \in BOOLEAN :
       LET db == execute_update(Database(tableRows, pending), autocommit, row, ok)
           after == IF ok THEN db ELSE ConnectionRollback(db)
       IN  /\ tableRows' = after.tableRows
           /\ pending' = after.pending
           /\ executed' = IF ok THEN Append(executed, row) ELSE executed
           /\ txnPc' = IF ok THEN "in" ELSE "rolledback"
  /\ UNCHANGED autocommit
  /\ UNCHANGED notTxn

\* a statement of the block that is no database call raises: "except
\* Exception as e: self.connection.rollback() ... raise e"
BlockRaises ==
  /\ txnPc = "in"
  /\ LET db == ConnectionRollback(Database(tableRows, pending))
     IN  tableRows' = db.tableRows /\ pending' = db.pending
  /\ txnPc' = "rolledback"
  /\ UNCHANGED << autocommit, executed >>
  /\ UNCHANGED notTxn

\* the block ends: "self.connection.commit()"
TransactionExit ==
  /\ txnPc = "in"
  /\ LET db == ConnectionCommit(Database(tableRows, pending))
     IN  tableRows' = db.tableRows /\ pending' = db.pending
  /\ txnPc' = "committed"
  /\ UNCHANGED << autocommit, executed >>
  /\ UNCHANGED notTxn

InitTxn ==
  /\ WorkflowIdle /\ SaltIdle /\ ClassifyIdle /\ RunsIdle /\ ApiIdle
  /\ txnPc = "start"
  /\ autocommit \in BOOLEAN
  /\ tableRows = <<>>
  /\ pending = <<>>
  /\ executed = <<>>

NextTxn ==
  \/ TransactionEnter
  \/ ExecuteUpdate
  \/ BlockRaises
  \/ TransactionExit

\* one "with db.transaction():" block of execute_update calls
SpecTxn == InitTxn /\ [][NextTxn]_vars

\* ------------------------------------------- two runs on the same directories
\* the tracker files that may wait in the master tracker directory
Trackers == {1, 2}

OtherRun(r) == CHOOSE s \in Runs : s # r

\* run r is between its first step and its last
AtWork(r) == runPc[r] \notin {"off", "initialize_process", "done"}

\* the files of customer c among files
CustomerDir(c, files) == { x \in files : x[1] = c }

\* INSERT INTO process_status: the table hands out the next process_id
InsertProcessStatus(rows, r) == Append(rows, r)

\* SELECT MIN(process_id)
GetMinId(rows) == IF rows = << >> THEN 0 ELSE 1

\* SELECT MAX(process_id), 0 for None
GetMaxId(rows) == Len(rows)

\* the loop over os.listdir(inprogress_dir) that skips every item
CleanInProgressKeeps(items) == items

\* the loop over os.listdir(inprogress_dir): files removed, directories rmtree'd
CleanInProgress(items) == {}

\* the loop over os.listdir(client_inprogress_dir) that skips every item
CleanCustomerDirKeeps(files, c) == files

\* the loop over os.listdir(client_inprogress_dir): every file removed
CleanCustomerDir(files, c) == files \ CustomerDir(c, files)

\* what a cleanup of the whole of InProgress by run r takes from a run at work
TakenFromOthers(r, by) ==
  { [customer |-> x[1], file |-> x[2], by |-> by] : x \in inProgressFiles }
    \cup { [customer |-> 0, file |-> t, by |-> by] :
             t \in { u \in inProgressTrackers :
                       \E s \in Runs \ {r} :
                          /\ mt[s] = u
                          /\ runPc[s] \in {"validate", "list", "stage", "finish",
                                           "move_to_bot_out"} } }

\* the bookkeeping of every step of run r
RunStep(r, next) ==
  /\ runPc' = [runPc EXCEPT ![r] = next]
  /\ concurrent' = (concurrent \/ AtWork(OtherRun(r)))
  /\ UNCHANGED notRuns

\* initialize_process up to the choice of the tracker file
RunInitializeProcess ==
  \E r \in Runs :
    /\ runPc[r] = "initialize_process"
    /\ IF trackerIntake = {} \/ intake = {}
         THEN /\ RunStep(r, "done")
              /\ UNCHANGED mt
         ELSE \E t \in trackerIntake :
                /\ mt' = [mt EXCEPT ![r] = t]
                /\ RunStep(r, "insert")
    /\ UNCHANGED << trackerIntake, statusRows, ownRow, held, cust, clientFile,
                    intake, inProgressTrackers, inProgressFiles, processed,
                    failed, cleanedOver >>

\* move_to_inprogress: the INSERT into process_status
RunInsertProcessStatus ==
  \E r \in Runs :
    /\ runPc[r] = "insert"
    /\ statusRows' = InsertProcessStatus(statusRows, r)
    /\ ownRow' = [ownRow EXCEPT ![r] = Len(statusRows')]
    /\ RunStep(r, "get_max_id")
    /\ UNCHANGED << mt, trackerIntake, held, cust, clientFile, intake,
                    inProgressTrackers, inProgressFiles, processed, failed,
                    cleanedOver >>

\* move_to_inprogress: process_id = get_max_id(process_status)
RunGetMaxId ==
  \E r \in Runs :
    /\ runPc[r] = "get_max_id"
    /\ LET process_id == GetMaxId(statusRows)
       IN  IF process_id = 0
             THEN /\ RunStep(r, "done")
                  /\ UNCHANGED held
             ELSE /\ held' = [held EXCEPT ![r] = process_id]
                  /\ RunStep(r, "clean")
    /\ UNCHANGED << mt, trackerIntake, statusRows, ownRow, cust, clientFile,
                    intake, inProgressTrackers, inProgressFiles, processed,
                    failed, cleanedOver >>

\* move_to_inprogress: the InProgress directory is emptied
RunCleanInProgress ==
  \E r \in Runs :
    /\ runPc[r] = "clean"
    /\ inProgressTrackers' = CleanInProgress(inProgressTrackers)
    /\ inProgressFiles' = CleanInProgress(inProgressFiles)
    /\ cleanedOver' = cleanedOver \cup TakenFromOthers(r, "move_to_inprogress")
    /\ RunStep(r, "move")
    /\ UNCHANGED << mt, trackerIntake, statusRows, ownRow, held, cust,
                    clientFile, intake, processed, failed >>

\* move_to_inprogress: shutil.move of the tracker; a missing source raises
RunMoveTracker ==
  \E r \in Runs :
    /\ runPc[r] = "move"
    /\ IF mt[r] \in trackerIntake
         THEN /\ trackerIntake' = trackerIntake \ {mt[r]}
              /\ inProgressTrackers' = inProgressTrackers \cup {mt[r]}
              /\ RunStep(r, "validate")
         ELSE /\ RunStep(r, "done")
              /\ UNCHANGED << trackerIntake, inProgressTrackers >>
    /\ UNCHANGED << mt, statusRows, ownRow, held, cust, clientFile, intake,
                    inProgressFiles, processed, failed, cleanedOver >>

\* validate_master_tracker reads the staged tracker; the customer loop follows
RunValidate ==
  \E r \in Runs :
    /\ runPc[r] = "validate"
    /\ IF mt[r] \in inProgressTrackers
         THEN /\ cust' = [cust EXCEPT ![r] = 1]
              /\ RunStep(r, "list")
         ELSE /\ RunStep(r, "done")
              /\ UNCHANGED cust
    /\ UNCHANGED << mt, trackerIntake, statusRows, ownRow, held, clientFile,
                    intake, inProgressTrackers, inProgressFiles, processed,
                    failed, cleanedOver >>

\* execute_each_customer: list_files[0] of the customer's directory
RunListCustomerFiles ==
  \E r \in Runs :
    /\ runPc[r] = "list"
    /\ IF cust[r] > MaxCustomers
         THEN /\ RunStep(r, "move_to_bot_out")
              /\ UNCHANGED << cust, clientFile >>
         ELSE IF CustomerDir(cust[r], intake) = {}
                THEN /\ cust' = [cust EXCEPT ![r] = @ + 1]
                     /\ RunStep(r, "list")
                     /\ UNCHANGED clientFile
                ELSE \E x \in CustomerDir(cust[r], intake) :
                       /\ clientFile' = [clientFile EXCEPT ![r] = x]
                       /\ RunStep(r, "stage")
                       /\ UNCHANGED cust
    /\ UNCHANGED << mt, trackerIntake, statusRows, ownRow, held, intake,
                    inProgressTrackers, inProgressFiles, processed, failed,
                    cleanedOver >>

\* execute_each_customer: the customer's InProgress subfolder is cleared, then
\* shutil.move brings the file in; a missing source raises and the customer
\* fails without a file
RunStageCustomerFile ==
  \E r \in Runs :
    /\ runPc[r] = "stage"
    /\ LET c == cust[r]
           cleaned == CleanCustomerDir(inProgressFiles, c)
       IN  /\ cleanedOver' =
                cleanedOver \cup
                  { [customer |-> x[1], file |-> x[2],
                     by |-> "execute_each_customer"] :
                       x \in CustomerDir(c, inProgressFiles) }
           /\ IF clientFile[r] \in intake
                THEN /\ intake' = intake \ {clientFile[r]}
                     /\ inProgressFiles' = cleaned \cup {clientFile[r]}
                     /\ RunStep(r, "finish")
                     /\ UNCHANGED << cust, clientFile >>
                ELSE /\ inProgressFiles' = cleaned
                     /\ clientFile' = [clientFile EXCEPT ![r] = NoFile]
                     /\ cust' = [cust EXCEPT ![r] = @ + 1]
                     /\ RunStep(r, "list")
                     /\ UNCHANGED intake
    /\ UNCHANGED << mt, trackerIntake, statusRows, ownRow, held,
                    inProgressTrackers, processed, failed >>

\* execute_each_customer: process_customer_file, then move_to_processed or
\* move_failed_clientfile, each of which moves the file only if it exists
RunFinishCustomerFile ==
  \E r \in Runs : \E process_status \in BOOLEAN :
    /\ runPc[r] = "finish"
    /\ LET exists == clientFile[r] \in inProgressFiles
       IN  /\ inProgressFiles' = inProgressFiles \ {clientFile[r]}
           /\ processed' = IF exists /\ process_status
                             THEN processed \cup {clientFile[r]}
                             ELSE processed
           /\ failed' = IF exists /\ ~process_status
                          THEN failed \cup {clientFile[r]}
                          ELSE failed
    /\ clientFile' = [clientFile EXCEPT ![r] = NoFile]
    /\ cust' = [cust EXCEPT ![r] = @ + 1]
    /\ RunStep(r, "list")
    /\ UNCHANGED << mt, trackerIntake, statusRows, ownRow, held, intake,
                    inProgressTrackers, cleanedOver >>

\* move_to_bot_out: the InProgress directory is emptied at the end of the run
RunMoveToBotOut ==
  \E r \in Runs :
    /\ runPc[r] = "move_to_bot_out"
    /\ inProgressTrackers' = CleanInProgress(inProgressTrackers)
    /\ inProgressFiles' = CleanInProgress(inProgressFiles)
    /\ cleanedOver' = cleanedOver \cup TakenFromOthers(r, "move_to_bot_out")
    /\ RunStep(r, "done")
    /\ UNCHANGED << mt, trackerIntake, statusRows, ownRow, held, cust,
                    clientFile, intake, processed, failed >>

InitRuns ==
  /\ runPc = [r \in Runs |-> "initialize_process"]
  /\ mt = [r \in Runs |-> 0]
  /\ trackerIntake \in {{1}, Trackers}
  /\ statusRows \in {<< >>, << 0 >>}
  /\ ownRow = [r \in Runs |-> 0]
  /\ held = [r \in Runs |-> 0]
  /\ cust = [r \in Runs |-> 0]
  /\ clientFile = [r \in Runs |-> NoFile]
  /\ \E n \in [Customers -> 0..MaxFiles] :
       intake = { x \in Customers \X Files : x[2] <= n[x[1]] }
  /\ inProgressTrackers = {}
  /\ inProgressFiles = {}
  /\ processed = {}
  /\ failed = {}
  /\ cleanedOver = {}
  /\ concurrent = FALSE
  /\ WorkflowIdle /\ SaltIdle /\ ClassifyIdle /\ TxnIdle /\ ApiIdle

NextRuns ==
  \/ RunInitializeProcess
  \/ RunInsertProcessStatus
  \/ RunGetMaxId
  \/ RunCleanInProgress
  \/ RunMoveTracker
  \/ RunValidate
  \/ RunListCustomerFiles
  \/ RunStageCustomerFile
  \/ RunFinishCustomerFile
  \/ RunMoveToBotOut

SpecRuns == InitRuns /\ [][NextRuns]_vars

\* ---------------------------------------------------------- process_status_api
\* "length = 10" when the parameter is missing, not a number or not positive
DefaultLength == 10

\* timedelta(hours=24); times are counted in hours
TriggerDelayHours == 24

\* datetime.now(pytz.UTC) of the call
utc_now == TriggerDelayHours + 1

\* EndTime of a process: None, or a time as << hours >>
NoEndTime == << >>
EndTimes == { NoEndTime, << 0 >>, << 2 >> }

\* a row of ProcessStatus: whether a database or filesystem report of it has a
\* "yes" action, its EndTime, and whether the filters of the request let it
\* into the listing
ProcessRows == [action_required : BOOLEAN, EndTime : EndTimes, listed : BOOLEAN]
ProcessTables == UNION { [1..n -> ProcessRows] : n \in 0..MaxProcesses }

\* what ScheduledJob.objects.get(pk=job_id, enabled=True) finds
JobLookups == {"no_job_id", "DoesNotExist", "no_deployment_version", "enabled"}

Requests == [start : {0, 1}, length : {0, 1}, job : JobLookups]

\* order_by("-id")
DescendingIds(ids) ==
  [i \in 1..Cardinality(ids) |->
     CHOOSE x \in ids : Cardinality({ y \in ids : y > x }) = i - 1]

\* the ids of a set, as the list a query returns
AscendingIds(ids) ==
  [i \in 1..Cardinality(ids) |->
     CHOOSE x \in ids : Cardinality({ y \in ids : y < x }) = i - 1]

\* qs[start:stop]
Slice(seq, start, stop) ==
  LET last == IF stop < Len(seq) THEN stop ELSE Len(seq)
  IN  [i \in 1..(IF last > start THEN last - start ELSE 0) |-> seq[start + i]]

\* "if length <= 0: length = 10"
PageLength(length) == IF length <= 0 THEN DefaultLength ELSE length

\* records = list(qs[start:start + length]), as ids
PageRecords(table, req) ==
  Slice(DescendingIds({ id \in DOMAIN table : table[id].listed }),
        req.start, req.start + PageLength(req.length))

\* db_yes_ids.union(fs_yes_ids): both are looked up with
\* status_id__in = the ids of the page
YesRequiredIds(table, page) ==
  { id \in { page[i] : i \in DOMAIN page } : table[id].action_required }

\* "if not r['EndTime']: continue", then "if utc_now > trigger_time_utc"
ReadyForTrigger(row) ==
  /\ row.EndTime # NoEndTime
  /\ utc_now > row.EndTime[1] + TriggerDelayHours

\* variant of TriggerCount with the async_task call inside the loop, once per
\* ready process; C33 must reject it
TriggerCountPerProcess(ready, triggered) == Len(ready)

\* "if processes_ready_for_trigger and not job_triggered: async_task(...)":
\* how many tasks the call hands to the queue
TriggerCount(ready, triggered) ==
  IF ready # << >> /\ ~triggered THEN 1 ELSE 0

\* sections 1 to 4 and the job lookup of section 5
ProcessStatusApiQuery ==
  /\ apiPc = "call"
  /\ records' = PageRecords(processes, request)
  /\ yes_required_ids' = YesRequiredIds(processes, records')
  /\ IF request.job = "enabled"
       THEN /\ all_records' = AscendingIds(yes_required_ids')
            /\ recIdx' = 1
            /\ apiPc' = "loop"
       ELSE /\ apiPc' = "returned"
            /\ UNCHANGED << all_records, recIdx >>
  /\ UNCHANGED << processes, request, processes_ready_for_trigger,
                  job_triggered, enqueued >>
  /\ UNCHANGED notApi

\* one pass of "for r in all_records"
ProcessStatusApiCheckRecord ==
  /\ apiPc = "loop"
  /\ recIdx \in 1..Len(all_records)
  /\ processes_ready_for_trigger' =
       IF ReadyForTrigger(processes[all_records[recIdx]])
         THEN Append(processes_ready_for_trigger, all_records[recIdx])
         ELSE processes_ready_for_trigger
  /\ recIdx' = recIdx + 1
  /\ UNCHANGED << apiPc, processes, request, records, yes_required_ids,
                  all_records, job_triggered, enqueued >>
  /\ UNCHANGED notApi

\* after the loop: the job is handed to the queue; async_task may raise
ProcessStatusApiTrigger ==
  /\ apiPc = "loop"
  /\ recIdx > Len(all_records)
  /\ LET n == TriggerCount(processes_ready_for_trigger, job_triggered)
     IN  \E raised \in BOOLEAN :
           /\ raised => n > 0
           /\ enqueued' = IF raised THEN enqueued ELSE enqueued + n
           /\ job_triggered' = (n > 0 /\ ~raised)
  /\ apiPc' = "returned"
  /\ UNCHANGED << processes, request, records, yes_required_ids, all_records,
                  recIdx, processes_ready_for_trigger >>
  /\ UNCHANGED notApi

InitApi ==
  /\ apiPc = "call"
  /\ processes \in ProcessTables
  /\ request \in Requests
  /\ records = << >>
  /\ yes_required_ids = {}
  /\ all_records = << >>
  /\ recIdx = 0
  /\ processes_ready_for_trigger = << >>
  /\ job_triggered = FALSE
  /\ enqueued = 0
  /\ WorkflowIdle /\ SaltIdle /\ ClassifyIdle /\ TxnIdle /\ RunsIdle

NextApi ==
  \/ ProcessStatusApiQuery
  \/ ProcessStatusApiCheckRecord
  \/ ProcessStatusApiTrigger

SpecApi == InitApi /\ [][NextApi]_vars

\* ------------------------------------------------------------------ properties
\* method m was called in this run
Called(m) == \E i \in DOMAIN trace : trace[i] = m

\* main() has returned
Ended == pc = "done"

Entries == 1..Len(logReport)
CompletedEntries == { i \in Entries : logReport[i].completed_sts }
FailedEntries == { i \in Entries : logReport[i].failed_sts }
EntriesOf(c) == { i \in Entries : logReport[i].customer_id = c }

\* customers execute_each_customer has returned for
Dispatched == { c \in Customers : custResult[c] # "none" }

\* the loop of master_tracker_update is over
LoopOver ==
  customerList # <<>> /\ pc \notin {"master_tracker_update", "execute_each_customer"}

Skipped(input) ==
  input.config = "none" \/ (input.config = "row" /\ input.file = 0)
Staged(input) == input.config = "row" /\ input.file # 0
UnknownExtractor(input) == Staged(input) /\ input.name \notin processor_map
ProcessorFailed(input) ==
  Staged(input) /\ input.name \in processor_map
                /\ input.outcome \in {"nodata", "badconfig"}

\* what the log says happened to customer c
Outcome(c) ==
  IF EntriesOf(c) = {} THEN "skipped"
  ELSE IF \A i \in EntriesOf(c) :
            logReport[i].completed_sts /\ ~logReport[i].failed_sts
  THEN "completed"
  ELSE IF \A i \in EntriesOf(c) :
            logReport[i].failed_sts /\ ~logReport[i].completed_sts
  THEN "failed"
  ELSE "open"

\* what customer c's own configuration and file call for
Expected(input) ==
  IF Skipped(input) THEN "skipped"
  ELSE IF input.name \in processor_map /\ input.outcome \in {"ok", "rowerror"}
  THEN "completed"
  ELSE "failed"

\* C1: a run that passed validation and reached move_to_bot_out ends Failed
\* when no log entry completed and at least one failed, and ends Completed
\* when at least one log entry completed.
C1_FinalDisposition ==
  (Ended /\ validated = "ok" /\ Called("move_to_bot_out")) =>
     /\ (CompletedEntries = {} /\ FailedEntries # {}) => run.status = "Failed"
     /\ CompletedEntries # {} => run.status = "Completed"

\* a run with one completed and one failed customer that ended Completed
C1_Witness ==
  /\ Ended /\ Called("move_to_bot_out")
  /\ CompletedEntries # {} /\ FailedEntries # {}
  /\ run.status = "Completed"

C3_ExactlyOneOutcome ==
  Ended => \A i \in Entries :
             logReport[i].completed_sts # logReport[i].failed_sts

\* C4: a customer whose extractor name is none of the six keys of
\* processor_map fails alone: it is failed and not skipped, its log entry is
\* marked failed and its file lies in Failed, and every active customer is
\* dispatched and gets the outcome its own configuration and file call for.
C4_UnknownExtractorFailsAlone ==
  /\ \A c \in Dispatched :
       UnknownExtractor(custInput[c]) =>
         /\ custResult[c] = "False"
         /\ Outcome(c) = "failed"
         /\ fileLoc[c][custInput[c].file] = "Failed"
  /\ \A c \in Dispatched : Outcome(c) = Expected(custInput[c])
  /\ LoopOver => \A i \in DOMAIN customerList : customerList[i] \in Dispatched

\* a customer with an unknown extractor name failed and another one completed
C4_Witness ==
  /\ Ended
  /\ \E c, d \in Dispatched :
       /\ c # d
       /\ UnknownExtractor(custInput[c]) /\ Outcome(c) = "failed"
       /\ Outcome(d) = "completed"

\* C5: when a processor returns failure or raises, the customer's log entry is
\* marked failed with a failure_message that carries the customer name and the
\* filename, the file lies in Failed/<run_id>/<customer>/, and the loop goes on:
\* it ends only after the last active customer.
C5_ProcessorFailureIsolated ==
  /\ \A c \in Dispatched :
       ProcessorFailed(custInput[c]) =>
         /\ EntriesOf(c) # {}
         /\ \A i \in EntriesOf(c) :
              /\ logReport[i].failed_sts /\ ~logReport[i].completed_sts
              /\ logReport[i].failure_message.customer_name
                   = logReport[i].customer_name
              /\ logReport[i].failure_message.filename = logReport[i].filename
              /\ logReport[i].filename = << c, custInput[c].file >>
         /\ fileLoc[c][custInput[c].file] = "Failed"
  /\ LoopOver =>
       /\ custIdx = Len(customerList) + 1
       /\ \A i \in DOMAIN customerList : custResult[customerList[i]] # "none"

\* the first customer's processor failed and the second customer completed
C5_Witness ==
  /\ Ended /\ Len(customerList) >= 2
  /\ ProcessorFailed(custInput[customerList[1]])
  /\ Outcome(customerList[1]) = "failed"
  /\ Outcome(customerList[2]) = "completed"

\* C6: dispatching a customer that has no subprocess configuration row, or no
\* file in its folder, returns True and changes neither the log, nor any file,
\* nor the failed counter, nor the run record, the report tables or the mails:
\* nothing the final status is computed from.
C6_SkipLeavesNoTrace ==
  [][ \A c \in Customers :
        (custResult[c] = "none" /\ custResult'[c] # "none"
           /\ Skipped(custInput'[c])) =>
          /\ custResult'[c] = "True"
          /\ logReport' = logReport
          /\ fileLoc' = fileLoc
          /\ failed_customers' = failed_customers
          /\ run' = run
          /\ reportTable' = reportTable
          /\ truncated' = truncated
          /\ notifications' = notifications ]_vars

\* a run with a customer skipped for want of a file and one skipped for want
\* of a configuration row
C6_Witness ==
  /\ Ended
  /\ \E c, d \in Dispatched :
       /\ custInput[c].config = "none" /\ Outcome(c) = "skipped"
       /\ custInput[d].config = "row" /\ custInput[d].file = 0
       /\ Outcome(d) = "skipped"
  /\ failed_customers = 0

\* C7: the statuses written to the run record follow the order Initiated,
\* File Moved to Inprogress, Master Tracker Validation Initiated, Master
\* Tracker Validation Completed, Completed, never going back; the only other
\* transition is the jump to Failed.
C7_StatusMonotonic ==
  /\ runWrites = <<>> <=> run = NoRun
  /\ runWrites # <<>> =>
       /\ runWrites[1].status = "Initiated"
       /\ runWrites[Len(runWrites)] = run
  /\ \A i \in DOMAIN runWrites :
       /\ \E k \in DOMAIN StatusOrder : StatusOrder[k] = runWrites[i].status
       /\ i > 1 => Rank(runWrites[i - 1].status) < Rank(runWrites[i].status)

\* a run that wrote all five statuses of the success path
C7_Witness ==
  /\ Ended /\ Len(runWrites) = 5
  /\ \A i \in 1..5 : runWrites[i].status = StatusOrder[i]

\* C8: Completed and Failed are terminal: no statement writes the run record
\* after one of them was written, and complete_process is never called after
\* move_to_failed.
C8_TerminalStatus ==
  /\ \A i \in DOMAIN runWrites :
       runWrites[i].status \in Terminal => i = Len(runWrites)
  /\ \A i, j \in DOMAIN trace :
       (trace[i] = "move_to_failed" /\ trace[j] = "complete_process") => j < i

\* a run that failed in move_to_bot_out and then returned
C8_Witness ==
  /\ Ended /\ run.status = "Failed"
  /\ Called("move_to_bot_out") /\ Called("move_to_failed")

\* C9: the end time of the run record is set exactly when its status is
\* Completed or Failed, and every statement that writes Completed or Failed
\* writes the end time with it.
C9_EndTimeIffTerminal ==
  /\ run.end_datetime <=> run.status \in Terminal
  /\ \A i \in DOMAIN runWrites :
       runWrites[i].end_datetime <=> runWrites[i].status \in Terminal

\* a run whose record was written Failed, with its end time
C9_Witness ==
  /\ run.status = "Failed" /\ run.end_datetime
  /\ runWrites # <<>> /\ ~runWrites[1].end_datetime

\* C10: no log entry exists, no customer file has left Intake and no report
\* table was truncated unless validate_master_tracker returned success.
C10_ValidationGates ==
  ( \/ logReport # <<>>
    \/ truncated # {}
    \/ \E c \in Customers : \E f \in Files :
         fileLoc[c][f] \notin {"Intake", "Absent"}
    \/ Dispatched # {} ) => validated = "ok"

\* after a successful validation a customer file was staged, logged and its
\* report table truncated
C10_Witness ==
  /\ validated = "ok" /\ logReport # <<>> /\ truncated # {}
  /\ \E c \in Customers : \E f \in Files : fileLoc[c][f] = "Processed"

\* C11: when the tracker lacks the sheet or a required column, the run goes
\* from Master Tracker Validation Initiated directly to Failed, the tracker
\* file ends in Failed/<run_id>/ and no customer is dispatched.
C11_ValidationFailureIsFatal ==
  (trackerContent # "valid" /\ Called("validate_master_tracker")) =>
     /\ validated = "failed"
     /\ run.status = "Failed"
     /\ Len(runWrites) >= 2
     /\ runWrites[Len(runWrites) - 1].status = "Master Tracker Validation Initiated"
     /\ trackerLoc = "Failed"
     /\ ~Called("master_tracker_update")
     /\ Dispatched = {} /\ logReport = <<>>

\* a run on a tracker without the comment column has ended Failed
C11_Witness ==
  /\ Ended /\ trackerContent = "comment_col_missing"
  /\ run.status = "Failed" /\ trackerLoc = "Failed"

\* C12: the error message recorded on the run and handed to the failure
\* notification after a failed validation names the missing column: it differs
\* from the message any tracker missing another column gets.
C12_MessageNamesMissingColumn ==
  (validated = "failed" /\ run.status = "Failed") =>
     \A other \in TrackerContents \ {"valid", trackerContent} :
        /\ run.error_message # ValidationErrorMessage(other)
        /\ \A i \in DOMAIN notifications :
             notifications[i].error_message # ValidationErrorMessage(other)

\* C13: a run that has created its run record has, when main() returns, handed
\* over exactly one notification: a success or a failure mail, never none,
\* never two.
C13_ExactlyOneNotification ==
  (Ended /\ run # NoRun) => Len(notifications) = 1

\* C14: when the move of the tracker into InProgress raises after the run
\* record was created, the run is routed to Failed (the record does not stay
\* Initiated) and no customer is processed.
C14_TrackerMoveFailureIsFatal ==
  (Called("move_to_inprogress") /\ processId # 0 /\ ~masterTrackerPath) =>
     /\ run.status = "Failed"
     /\ Dispatched = {} /\ logReport = <<>>

\* customer a is done with: skipped, or its log entry is completed or failed
\* and its file is out of InProgress
Settled(a) ==
  /\ custResult[a] # "none"
  /\ \/ Outcome(a) = "skipped"
     \/ /\ Outcome(a) \in {"completed", "failed"}
        /\ \A f \in Files : fileLoc[a][f] # "InProgress"

\* customer b's log entry exists or one of its files has left Intake
Begun(b) ==
  \/ EntriesOf(b) # {}
  \/ \E f \in Files : fileLoc[b][f] \notin {"Intake", "Absent"}

\* C15: customers are dispatched one at a time in ascending customer_id order:
\* for active customers a before b, a is skipped or its log entry is completed
\* or failed and its file has left InProgress before b's log entry is created
\* or b's file is staged.
C15_OneAtATimeInOrder ==
  \A i, j \in DOMAIN customerList :
     LET a == customerList[i]
         b == customerList[j]
     IN  (a < b /\ (Begun(b) \/ custResult[b] # "none")) => Settled(a)

\* two customers were staged, the first failed and the second completed
C15_Witness ==
  /\ Ended /\ Len(customerList) >= 2
  /\ Outcome(1) = "failed" /\ Outcome(2) = "completed"
  /\ Begun(1) /\ Begun(2)

\* C16: in the aggregate-failure case the error message move_to_bot_out stores
\* on the run lists every failed log entry of this run exactly once, by
\* customer name and filename: none is missing, none is repeated, none comes
\* from another run.
C16_AggregateMessageEnumeratesFailures ==
  (run.status = "Failed" /\ Called("move_to_bot_out")) =>
     LET items == run.error_message[2]
     IN  /\ Len(items) = Cardinality(FailedEntries)
         /\ \A i \in FailedEntries :
              \E k \in DOMAIN items :
                 /\ items[k][2] = logReport[i].customer_name
                 /\ items[k][3] = logReport[i].filename
         /\ \A k \in DOMAIN items :
              /\ items[k][1] = k
              /\ \E i \in FailedEntries :
                   /\ items[k][2] = logReport[i].customer_name
                   /\ items[k][3] = logReport[i].filename

\* a run in which both customers failed has ended Failed with its message
C16_Witness ==
  /\ Ended /\ run.status = "Failed" /\ Called("move_to_bot_out")
  /\ Cardinality(FailedEntries) = 2

\* position of the first call of m in the trace, 0 if it was not called
FirstCall(m) ==
  IF Called(m) THEN CHOOSE i \in DOMAIN trace :
                      trace[i] = m /\ \A j \in 1..(i - 1) : trace[j] # m
  ELSE 0

C20_OnlyThisRunsRecords ==
  Ended =>
     \A c \in Dispatched :
        (custInput[c].config = "row" /\ custInput[c].name \in processor_map) =>
           LET t == ReportTableOf(custInput[c].name)
           IN  reportTable[t].prev_include = 0 /\ reportTable[t].prev_exclude = 0

\* C21: an exception while one row of a customer's sheet is classified or
\* inserted makes that customer fail: once execute_each_customer has returned,
\* the customer's log entry is marked failed and its file is in Failed; the
\* customer is not completed with the row dropped.
C21_RowExceptionFailsCustomer ==
  \A c \in Customers :
     ( /\ custResult[c] # "none"
       /\ Staged(custInput[c])
       /\ custInput[c].name \in processor_map
       /\ custInput[c].outcome = "rowerror" ) =>
        /\ Outcome(c) = "failed"
        /\ fileLoc[c][custInput[c].file] = "Failed"

\* the words of a text (maximal runs of letters) and, one by one, the
\* characters between them
RECURSIVE WordsAndGaps(_, _, _)
WordsAndGaps(text, word, segments) ==
  LET closed == IF word = <<>> THEN segments ELSE Append(segments, word)
  IN  IF text = <<>> THEN closed
      ELSE IF Head(text) \in Letters
      THEN WordsAndGaps(Tail(text), Append(word, Head(text)), segments)
      ELSE WordsAndGaps(Tail(text), <<>>, Append(closed, << Head(text) >>))

RECURSIVE Concat(_)
Concat(segments) ==
  IF segments = <<>> THEN <<>> ELSE Head(segments) \o Concat(Tail(segments))

\* repeated blanks collapsed to one
RECURSIVE Collapse(_)
Collapse(text) ==
  IF Len(text) < 2 THEN text
  ELSE IF text[1] = " " /\ text[2] = " " THEN Collapse(Tail(text))
  ELSE << text[1] >> \o Collapse(Tail(text))

\* the text without every case-insensitive whole-word occurrence of a salt,
\* blanks collapsed and trimmed, everything else as it was
WholeWordsRemoved(text, salts) ==
  Strip(Collapse(Concat(
    SelectSeq(WordsAndGaps(text, <<>>, <<>>),
              LAMBDA seg : Lower(seg) \notin LoweredSalts(salts)))))

\* C22: get_excluded_salt returns the ingredient text without every
\* case-insensitive whole-word occurrence of every excluded salt and with
\* nothing else changed: a salt inside a longer word stays, the other words
\* keep their order, blanks are collapsed and trimmed.
C22_WholeWordSaltRemoval ==
  saltPc = "return" =>
     filtered_name = WholeWordsRemoved(drug_name, excluded_saltnames)

\* the rows process_marksans_usa / process_padagis_usa have inserted
RowsOfProcessor(name) ==
  IF processorName = name THEN DOMAIN report_rows ELSE {}

\* C23: the decision table of process_marksans_usa: a row is excluded with
\* "Approval Status is not Approved" iff its approval status is neither empty
\* nor "approved"; otherwise excluded with "Withdrawn Date is not empty" iff
\* its withdrawn date is non-empty; otherwise included with the default
\* remark.  A cell without a value is empty.
C23_MarksansDecisionTable ==
  \A i \in RowsOfProcessor("PROCESS_MARKSANS_USA") :
     LET r == report_rows[i]
         approvalEmpty == r.fields.approval_status \in {NoValue, ""}
         approved == r.fields.approval_status = " Approved "
         withdrawnEmpty == r.fields.withdrawn_date \in {NoValue, ""}
         decided == Decision(r.include_exclude_status, r.remark)
     IN  IF ~approvalEmpty /\ ~approved
         THEN decided = Decision("exclude", "Approval Status is not Approved")
         ELSE IF ~withdrawnEmpty
         THEN decided = Decision("exclude", "Withdrawn Date is not empty")
         ELSE decided = Decision("include", remark_default)

\* C24: the decision table of process_padagis_usa is a first-match chain:
\* sheet "Contract Manufactured Products" gives exclude with "Not MAH
\* product"; else colour status Red gives exclude with "Product Highlighted in
\* Red"; else a comment containing "discontinued" in any case gives exclude
\* with the comment, as the row stores it, as remark; else include with the
\* default remark.
C24_PadagisUsaFirstMatch ==
  \A i \in RowsOfProcessor("PROCESS_PADAGIS_USA") :
     LET r == report_rows[i]
         decided == Decision(r.include_exclude_status, r.remark)
     IN  IF r.fields.sheetname = "Contract Manufactured Products"
         THEN decided = Decision("exclude", "Not MAH product")
         ELSE IF r.fields.color_status = "Red"
         THEN decided = Decision("exclude", "Product Highlighted in Red")
         ELSE IF r.fields.comment \in {"Discontinued in 2020", "it's DISCONTINUED"}
         THEN decided = Decision("exclude", r.comment)
         ELSE decided = Decision("include", remark_default)

\* a row of the contract sheet, highlighted in red, with a "discontinued"
\* comment got the remark of the sheet rule, and a red row of another sheet
\* with such a comment got the remark of the colour rule
C24_Witness ==
  /\ classifyPc = "returned"
  /\ \E i, j \in RowsOfProcessor("PROCESS_PADAGIS_USA") :
       /\ report_rows[i].fields.sheetname = "Contract Manufactured Products"
       /\ report_rows[i].fields.color_status = "Red"
       /\ report_rows[i].fields.comment = "Discontinued in 2020"
       /\ report_rows[i].remark = "Not MAH product"
       /\ report_rows[j].fields.sheetname = "Padagis Products"
       /\ report_rows[j].fields.color_status = "Red"
       /\ report_rows[j].fields.comment = "it's DISCONTINUED"
       /\ report_rows[j].remark = "Product Highlighted in Red"

\* C25: classifier purity, for each of the six processors: two rows with the
\* same field values get the same (include_exclude_status, remark), whatever
\* rows were classified before them, and the status is include or exclude.
C25_ClassifierPurity ==
  \A i, j \in DOMAIN report_rows :
     /\ report_rows[i].include_exclude_status \in {"include", "exclude"}
     /\ report_rows[i].fields = report_rows[j].fields =>
          /\ report_rows[i].include_exclude_status =
               report_rows[j].include_exclude_status
          /\ report_rows[i].remark = report_rows[j].remark

\* process_relonchem classified the same row twice, with an excluded row in
\* between, and gave it the same status and remark both times
C25_Witness ==
  /\ classifyPc = "returned"
  /\ processorName = "PROCESS_RELONCHEM"
  /\ Len(report_rows) = 3
  /\ report_rows[1].fields = report_rows[3].fields
  /\ report_rows[1].include_exclude_status = "include"
  /\ report_rows[2].include_exclude_status = "exclude"
  /\ report_rows[3].remark = report_rows[1].remark

\* C26: "with db.transaction():" is all-or-nothing: while the block runs
\* nothing it wrote is durable, after a raise in the block none of its
\* execute_update calls has left a row, and after a successful block all of
\* them have.
C26_TransactionAllOrNothing ==
  /\ txnPc \in {"in", "rolledback"} => tableRows = <<>>
  /\ txnPc = "committed" => tableRows = executed

\* how often method m was called in this run
Calls(m) == Cardinality({ i \in DOMAIN trace : trace[i] = m })

\* C27: generate_report runs exactly once in every run that passed validation,
\* whatever the customers' outcomes and whatever master_tracker_update
\* returned: never before validation passed and the last customer was
\* dispatched, always before move_to_bot_out, never twice.
C27_ReportRunsOnce ==
  /\ Calls("generate_report") <= 1
  /\ Called("generate_report") =>
       /\ validated = "ok"
       /\ custIdx = 0 \/ custIdx > Len(customerList)
       /\ \A i \in DOMAIN trace :
            trace[i] \in {"master_tracker_update", "execute_each_customer"} =>
               i < FirstCall("generate_report")
  /\ Called("move_to_bot_out") =>
       /\ Called("generate_report")
       /\ FirstCall("generate_report") < FirstCall("move_to_bot_out")
  /\ (Ended /\ validated = "ok") => Calls("generate_report") = 1

\* a run in which every dispatched customer failed went through
\* generate_report and then to Failed
C27_Witness ==
  /\ Ended /\ Calls("generate_report") = 1
  /\ FailedEntries # {} /\ CompletedEntries = {}
  /\ run.status = "Failed"


\* C28: run-id allocation is an insert followed by SELECT MAX(process_id).  A
\* run that holds a process_id inserted a row of its own, and the id it holds
\* is that row's id or a later one; with a single run at a time (no step of
\* one run was ever taken while the other was at work) the id held is the id
\* of the row the run inserted; two runs hold the same id only when they
\* overlapped, and then it is the id of the later of their two rows.
C28_RunIdRace ==
  /\ \A r \in Runs :
       held[r] # 0 =>
         /\ ownRow[r] \in 1..Len(statusRows)
         /\ statusRows[ownRow[r]] = r
         /\ held[r] \in ownRow[r]..Len(statusRows)
         /\ ~concurrent => held[r] = ownRow[r]
  /\ (held[1] # 0 /\ held[1] = held[2]) =>
       /\ concurrent
       /\ \E r \in Runs : held[r] = ownRow[r] /\ ownRow[OtherRun(r)] < ownRow[r]

\* both runs inserted before either looked up, and both hold the same id,
\* which is the row of one of them only
C28_Witness ==
  /\ held[1] # 0
  /\ held[1] = held[2]
  /\ ownRow[1] # ownRow[2]
  /\ \E r \in Runs : held[r] # ownRow[r]

\* a run on its own holds the id of the row it inserted, which is not the
\* first row of the table
C28_WitnessAlone ==
  /\ ~concurrent
  /\ \A r \in Runs : runPc[r] = "done" /\ held[r] = ownRow[r] /\ held[r] > 1

\* what a cleanup took from a run at work is in no directory any more, and
\* a cleanup takes something from a run only when the runs overlapped
C29_Gone ==
  /\ \A x \in cleanedOver :
       x.customer # 0 =>
         << x.customer, x.file >> \notin
            (intake \cup inProgressFiles \cup processed \cup failed)
  /\ cleanedOver # {} => concurrent
  /\ processed \cap failed = {}

\* a customer file leaves InProgress to Processed, to Failed or by a cleanup
C29_LeavesInProgress ==
  \A x \in inProgressFiles \ inProgressFiles' :
     \/ x \in processed' \cup failed'
     \/ \E y \in cleanedOver' : y.customer = x[1] /\ y.file = x[2]

\* C29: nothing protects what a run has in InProgress from another run.  What
\* a cleanup (that of move_to_inprogress included) took from a run at work is
\* gone: the file is neither in Intake nor in InProgress nor in Processed nor
\* in Failed; a customer file leaves InProgress only to Processed, to Failed
\* or through such a cleanup; and a cleanup takes something from a run only
\* when the runs overlapped.
C29_StagedFilesUnprotected == [](C29_Gone) /\ [][C29_LeavesInProgress]_vars

\* both runs have ended, and a customer file the first run had staged was
\* deleted by the cleanup in the second run's move_to_inprogress: it is in
\* neither Processed nor Failed
C29_Witness ==
  /\ \A r \in Runs : runPc[r] = "done"
  /\ \E x \in cleanedOver :
       /\ x.by = "move_to_inprogress"
       /\ x.customer # 0
       /\ << x.customer, x.file >> \notin processed \cup failed

\* the effect of a step that stages clientFile[r]
C30_StagingStep ==
  \A r \in Runs :
     (runPc[r] = "stage" /\ runPc'[r] = "finish") =>
        /\ CustomerDir(cust[r], inProgressFiles') = {clientFile[r]}
        /\ clientFile[r] \notin intake'
        /\ intake' = intake \ {clientFile[r]}
        /\ inProgressFiles' \ CustomerDir(cust[r], inProgressFiles')
             = inProgressFiles \ CustomerDir(cust[r], inProgressFiles)
        /\ UNCHANGED << inProgressTrackers, trackerIntake, processed, failed >>

C31_StageTrackerOrdering ==
  /\ trackerLoc \notin {"Intake", "Absent"} =>
       /\ runWrites # << >>
       /\ runWrites[1] = InsertedRunRow
  /\ pc = "validate_master_tracker" =>
       /\ trackerLoc = "InProgress"
       /\ masterTrackerPath
       /\ ~inProgressLeftover
       /\ \A c \in Customers : \A f \in Files : fileLoc[c][f] # "InProgress"
  /\ \A i \in DOMAIN runWrites :
       runWrites[i].status = "File Moved to Inprogress" =>
         /\ i > 1
         /\ masterTrackerPath
         /\ trackerLoc \notin {"Intake", "Absent"}

\* the customers whose file the extractor could not read: the wrapper returned
\* None for a missing sheet or a missing column
Unreadable == { c \in Customers : custInput[c].outcome = "nodata" }

\* C32: a customer file whose sheet or required column is missing is a hard
\* error for that customer.  execute_each_customer returns False for it, the
\* customer has a log entry (it was not skipped), that entry is never marked
\* completed and the file is never in Processed; and unless a file operation
\* or database statement raised, the entry is marked failed with the failure
\* message and the file is in Failed.
C32_UnreadableFileFailsCustomer ==
  \A c \in Unreadable :
     /\ custResult[c] = "False"
     /\ EntriesOf(c) # {}
     /\ Outcome(c) # "skipped"
     /\ \A i \in EntriesOf(c) : ~logReport[i].completed_sts
     /\ fileLoc[c][custInput[c].file] # "Processed"
     /\ faults = 0 =>
          /\ Outcome(c) = "failed"
          /\ fileLoc[c][custInput[c].file] = "Failed"
          /\ \A i \in EntriesOf(c) :
               logReport[i].failure_message
                 = FailureMessage(c, << c, custInput[c].file >>)

\* the run has ended, the first customer's file could not be read and was
\* marked failed, the second customer's file was processed
C32_Witness ==
  /\ Ended
  /\ 1 \in Unreadable
  /\ Outcome(1) = "failed"
  /\ fileLoc[1][custInput[1].file] = "Failed"
  /\ \E c \in Customers : Outcome(c) = "completed"

\* the processes of the whole table that have a "yes" action and whose
\* EndTime + 24 hours is earlier than the time of the call
ReadyProcesses ==
  { id \in DOMAIN processes :
      /\ processes[id].action_required
      /\ processes[id].EndTime # NoEndTime
      /\ processes[id].EndTime[1] + TriggerDelayHours < utc_now }

\* C33: one call of process_status_api enqueues execute_job at most once, and
\* only if some action-required process has an EndTime more than 24 hours
\* before the call; a process without EndTime is never taken for ready, and
\* job_triggered says whether the task was enqueued.
C33_TriggerOncePerCall ==
  /\ enqueued <= 1
  /\ enqueued = 1 => ReadyProcesses # {}
  /\ \A i \in DOMAIN processes_ready_for_trigger :
       processes_ready_for_trigger[i] \in ReadyProcesses
  /\ apiPc = "returned" => (job_triggered <=> enqueued = 1)
  /\ (\A id \in DOMAIN processes : processes[id].EndTime = NoEndTime) =>
       enqueued = 0

\* the call found two ready processes and enqueued the job once
C33_Witness ==
  /\ apiPc = "returned"
  /\ Len(processes_ready_for_trigger) = 2
  /\ enqueued = 1

\* C34: the trigger check covers every process with action_required = YES.
\* When the call has returned and its job is enabled with a deployment
\* version, every ready action-required process of the table has been found
\* ready, whether or not it is on the requested page or passes the filters
\* of the listing.
C34_TriggerCoversAllProcesses ==
  (apiPc = "returned" /\ request.job = "enabled") =>
     \A id \in ReadyProcesses :
        \E i \in DOMAIN processes_ready_for_trigger :
           processes_ready_for_trigger[i] = id

\* where the file of log entry i is
EntryFileLoc(i) == fileLoc[logReport[i].filename[1]][logReport[i].filename[2]]

\* C35: log entries and file locations agree at the end of a run.  When main
\* has returned, an entry of this run has completed_sts set if and only if
\* its file is in Processed, and failed_sts set if and only if its file is in
\* Failed.
C35_LogAgreesWithFiles ==
  Ended =>
    \A i \in Entries :
       /\ logReport[i].completed_sts <=> EntryFileLoc(i) = "Processed"
       /\ logReport[i].failed_sts <=> EntryFileLoc(i) = "Failed"

\* C36: the run counters agree with the log.  Once the loop of
\* master_tracker_update is over, processed_customers is the number of this
\* run's log entries with completed_sts set and failed_customers the number
\* with failed_sts set, so that a skipped customer, who has no entry, is in
\* neither counter.
C36_CountersAgreeWithLog ==
  LoopOver =>
    /\ processed_customers = Cardinality(CompletedEntries)
    /\ failed_customers = Cardinality(FailedEntries)

\* C37: a run that got as far as validating the tracker ends in a terminal
\* status.  When main has returned, the run row is Completed or Failed and
\* has its end time, whichever later step failed.
C37_EndsTerminal ==
  (Ended /\ Called("validate_master_tracker")) =>
     /\ run.status \in Terminal
     /\ run.end_datetime

\* C38: the exit code of main reflects the final status of the run.  When
\* main has returned, it returned 0 if and only if the run row is Completed,
\* and 1 otherwise.
C38_ExitCodeReflectsStatus ==
  Ended =>
    /\ exitCode \in {0, 1}
    /\ exitCode = 0 <=> run.status = "Completed"

\* the customers whose log entry is marked failed and whose processor's report
\* table no other dispatched customer writes to
FailedAlone ==
  { c \in Customers :
      /\ EntriesOf(c) # {}
      /\ \A i \in EntriesOf(c) : logReport[i].failed_sts
      /\ custInput[c].name \in processor_map
      /\ \A d \in Customers \ {c} : custInput[d].name # custInput[c].name }

\* C39: a failed customer contributes nothing to the counts.  The report table
\* of a customer whose log entry is marked failed holds no row of this run,
\* and the summary row of this run for that table has include_count,
\* exclude_count and total_count 0.
C39_FailedCustomerCountsNothing ==
  \A c \in FailedAlone :
     LET t == ReportTableOf(custInput[c].name)
     IN  /\ reportTable[t].include = 0
         /\ reportTable[t].exclude = 0
         /\ \A i \in DOMAIN inclusion_exclusion_counts :
              LET row == inclusion_exclusion_counts[i]
              IN  (row.process_id = processId /\ row.customer_name = t) =>
                     /\ row.include_count = 0
                     /\ row.exclude_count = 0
                     /\ row.total_count = 0

\* the files of customer c that are not where the customer's Intake folder is
MovedFiles(c) == { f \in Files : fileLoc[c][f] \notin {"Intake", "Absent"} }

\* at most one file of a customer has left Intake, the one the customer's
\* dispatch took; the customer has at most one log entry, which names that
\* file; a customer whose file was staged with nothing raising has exactly one
C40_OneFilePerCustomer ==
  \A c \in Customers :
     /\ MovedFiles(c) \subseteq {custInput[c].file}
     /\ Cardinality(EntriesOf(c)) <= 1
     /\ \A i \in EntriesOf(c) : logReport[i].filename = << c, custInput[c].file >>
     /\ (Staged(custInput[c]) /\ faults = 0) =>
          /\ Cardinality(EntriesOf(c)) = 1
          /\ MovedFiles(c) = {custInput[c].file}

\* a step that takes a file out of a customer's Intake folder takes the first
\* file of the listing and leaves every other file of every folder where it is
C40_OtherFilesStay ==
  \A c \in Customers : \A f \in Files :
     (fileLoc[c][f] = "Intake" /\ fileLoc'[c][f] # "Intake") =>
        /\ \A g \in Files : g < f => fileLoc[c][g] # "Intake"
        /\ \A d \in Customers : \A g \in Files :
             (d # c \/ g # f) /\ fileLoc[d][g] = "Intake" => fileLoc'[d][g] = "Intake"

\* C40: when a customer's Intake folder holds more than one spreadsheet, one of
\* them (the first of the listing) is staged and processed in the run and one
\* log entry is created for the customer; the other files stay in Intake,
\* are not moved or deleted and have no log entry.
C40_OneFileStagedRestStay == [](C40_OneFilePerCustomer) /\ [][C40_OtherFilesStay]_vars

\* the run has ended; a customer's first file is in Processed and another
\* customer's first file is in Failed, each with one log entry, while the
\* second file of each is still in Intake
C40_Witness ==
  /\ Ended
  /\ \E c, d \in Customers :
       /\ fileLoc[c][1] = "Processed" /\ fileLoc[c][2] = "Intake"
       /\ fileLoc[d][1] = "Failed" /\ fileLoc[d][2] = "Intake"
       /\ Cardinality(EntriesOf(c)) = 1
       /\ Cardinality(EntriesOf(d)) = 1
       /\ FailedEntries = EntriesOf(d)

====
